---- MODULE Spec2Model ----
(***************************************************************************)
(* Animation script pipeline of roast-me (functions/services):             *)
(*   animation_utils.py      parse_animation_response, clamp_intensity,    *)
(*                           sanitize_animation_script,                    *)
(*                           generate_default_animation_script             *)
(*   animation_validator.py  validate_animation_script and its helpers     *)
(*   animation_service.py    generate_animation_script,                    *)
(*                           _call_gemini_for_animation                    *)
(*                                                                         *)
(* Python values are tagged records [t, v].  Numbers are fixed-point, in   *)
(* hundredths (1.0 is 100, one second is 100): every number the model      *)
(* draws is a multiple of 0.04, so that d * 0.25, d * 0.5 and d * 0.75     *)
(* are exact.  A str is a sequence of symbols: a vocabulary word such as   *)
(* "idle" is the one-symbol string <<"idle">>, a transcript is a sequence  *)
(* of character symbols.  A dict is a function over a fixed universe of    *)
(* keys in which an absent key maps to Missing.                            *)
(***************************************************************************)
EXTENDS Integers, Sequences, FiniteSets, TLC

VARIABLES
    pc,                \* position of the call in progress
    transcript,        \* generate_animation_script's argument (a str's symbols)
    duration_seconds,  \* generate_animation_script's argument (a number)
    response,          \* what the text model answered
    animation_script,  \* _call_gemini_for_animation's return value, or the script under check
    validation,        \* outcome of validate_animation_script: raised, is_valid, issues
    returned,          \* the value returned to the caller
    value,             \* clamp_intensity's argument
    intensity,         \* clamp_intensity's return value
    calls,             \* the calls made to the vision model, in order
    roast_data,        \* generate_roast's roast_data, build_narration_text's argument
    strategy,          \* the parsing path roast_data came from
    exception,         \* the exception that left the function in progress
    narration_text,    \* build_narration_text's text
    environment,       \* os.environ and what the file system does
    audio_base64,      \* generate_tts_audio's audio_base64
    artifacts,         \* the files _save_test_audio_files has written
    pcm_data,          \* decode_audio's pcm_data
    wav_data,          \* decode_audio's wav_data
    image,             \* resize_image's argument: the image's size
    new_size,          \* the size of the image resize_image returns
    request,           \* roast_image's request
    reply,             \* roast_image's return value: body and status
    temp_dir,          \* the files of functions/temp that concurrent calls share
    callers            \* the concurrent calls of generate_tts_audio, each with its locals

\* the variables of the animation pipeline other than pc, response and returned
animationVars == <<transcript, duration_seconds, animation_script, validation,
                   value, intensity>>

\* the variables of the roast, narration, speech, audio and image functions
\* and of the HTTP handler
roastVars == <<calls, roast_data, strategy, exception, narration_text, environment,
               audio_base64,
               artifacts, pcm_data, wav_data, image, new_size, request, reply,
               temp_dir, callers>>

vars == <<pc, response, returned, animationVars, roastVars>>

----------------------------------------------------------------------------
(* Python values *)

Missing == [t |-> "missing", v |-> 0]
None == [t |-> "null", v |-> 0]
NaN == [t |-> "nan", v |-> 0]
Bool(b) == [t |-> "bool", v |-> b]
PyInt(n) == [t |-> "int", v |-> n]
PyFloat(n) == [t |-> "float", v |-> n]
Str(s) == [t |-> "str", v |-> s]
List(s) == [t |-> "list", v |-> s]
Dict(f) == [t |-> "dict", v |-> f]

\* n seconds (or the number n) in hundredths
Sec(n) == n * 100

\* isinstance(x, (int, float)): bool is a subclass of int, nan is a float
IsNumber(x) == x.t \in {"int", "float", "bool", "nan"}

IsNaN(x) == x.t = "nan"

\* the numeric value of a number other than nan (True is 1, False is 0)
NumVal(x) == IF x.t = "bool" THEN (IF x.v THEN Sec(1) ELSE 0) ELSE x.v

\* a < b, a <= b, a > b of two numbers: every comparison with nan is false
Lt(a, b) == ~IsNaN(a) /\ ~IsNaN(b) /\ NumVal(a) < NumVal(b)
Le(a, b) == ~IsNaN(a) /\ ~IsNaN(b) /\ NumVal(a) <= NumVal(b)
Gt(a, b) == Lt(b, a)

\* `key in d` and d.get(key, default) of a dict d
Has(d, key) == key \in DOMAIN d.v /\ d.v[key] # Missing
Get(d, key, default) == IF Has(d, key) THEN d.v[key] ELSE default

\* bool(x)
Truthy(x) ==
    CASE x.t = "null" -> FALSE
      [] x.t = "bool" -> x.v
      [] x.t \in {"int", "float"} -> x.v # 0
      [] x.t = "nan" -> TRUE
      [] x.t \in {"str", "list"} -> x.v # <<>>
      [] x.t = "dict" -> \E k \in DOMAIN x.v : x.v[k] # Missing
      [] OTHER -> FALSE

----------------------------------------------------------------------------
(* animation_constants.py *)

AnimationNames == {"idle", "walkRelaxed", "walkThink", "run", "sitTalk", "spellcast", "relax"}
ExpressionNames == {"neutral", "smile", "laugh", "shocked", "angry", "confused"}

\* the dicts' keys, as str values
AVAILABLE_ANIMATIONS == {Str(<<n>>) : n \in AnimationNames}
AVAILABLE_EXPRESSIONS == {Str(<<n>>) : n \in ExpressionNames}

\* ANIMATION_CONFIG["max_keyframes"]
max_keyframes == 10

DEFAULT_EXPRESSION == Str(<<"neutral">>)
DEFAULT_ANIMATION == Str(<<"idle">>)
DEFAULT_INTENSITY == PyFloat(50)

----------------------------------------------------------------------------
(* The key universes of the dicts of a script *)

ScriptKeys == {"metadata", "timeline", "version"}
MetadataKeys == {"duration", "transcript", "intensity", "style", "notes", "fallback"}
FrameKeys == {"startTime", "endTime", "animation", "expression", "intensity", "notes", "easing"}

EmptyDict == Dict([k \in {"k"} |-> Missing])

\* a dict literal over a key universe: the keys of f present, the others absent
MakeDict(keys, f) == Dict([k \in keys |-> IF k \in DOMAIN f THEN f[k] ELSE Missing])

----------------------------------------------------------------------------
(* animation_utils.py *)

\* min(a, b) and max(a, b) of Python on numbers: the first argument is kept
\* unless the second compares strictly beyond it (so nan never replaces it)
PyMin(a, b) == IF Lt(b, a) THEN b ELSE a
PyMax(a, b) == IF Gt(b, a) THEN b ELSE a

\* float(x) of a number
ToFloat(x) == IF IsNaN(x) THEN NaN ELSE PyFloat(NumVal(x))

\* clamp_intensity without its lower bound: min(1.0, float(value))
clamp_intensity_NoFloor(x) ==
    IF ~IsNumber(x)
    THEN DEFAULT_INTENSITY
    ELSE PyMin(PyFloat(Sec(1)), ToFloat(x))

clamp_intensity(x) ==
    IF ~IsNumber(x)
    THEN DEFAULT_INTENSITY
    ELSE PyMax(PyFloat(0), PyMin(PyFloat(Sec(1)), ToFloat(x)))

\* SanitizeFrame reading startTime from endTime and endTime from startTime
SanitizeFrame_Swapped(frame) ==
    MakeDict(FrameKeys,
        [startTime |-> Get(frame, "endTime", PyInt(0)),
         endTime |-> Get(frame, "startTime", PyInt(0)),
         animation |-> Get(frame, "animation", DEFAULT_ANIMATION),
         expression |-> Get(frame, "expression", DEFAULT_EXPRESSION),
         intensity |-> clamp_intensity(Get(frame, "intensity", DEFAULT_INTENSITY)),
         notes |-> Get(frame, "notes", Str(<<>>))])

\* SanitizeFrame defaulting a missing expression to DEFAULT_ANIMATION
SanitizeFrame_WrongDefault(frame) ==
    MakeDict(FrameKeys,
        [startTime |-> Get(frame, "startTime", PyInt(0)),
         endTime |-> Get(frame, "endTime", PyInt(0)),
         animation |-> Get(frame, "animation", DEFAULT_ANIMATION),
         expression |-> Get(frame, "expression", DEFAULT_ANIMATION),
         intensity |-> clamp_intensity(Get(frame, "intensity", DEFAULT_INTENSITY)),
         notes |-> Get(frame, "notes", Str(<<>>))])

SanitizeFrame(frame) ==
    MakeDict(FrameKeys,
        [startTime |-> Get(frame, "startTime", PyInt(0)),
         endTime |-> Get(frame, "endTime", PyInt(0)),
         animation |-> Get(frame, "animation", DEFAULT_ANIMATION),
         expression |-> Get(frame, "expression", DEFAULT_EXPRESSION),
         intensity |-> clamp_intensity(Get(frame, "intensity", DEFAULT_INTENSITY)),
         notes |-> Get(frame, "notes", Str(<<>>))])

\* the loop over the timeline: non-dict entries are skipped
RECURSIVE SanitizeTimeline(_)
SanitizeTimeline(frames) ==
    IF frames = <<>> THEN <<>>
    ELSE IF Head(frames).t # "dict"
         THEN SanitizeTimeline(Tail(frames))
         ELSE <<SanitizeFrame(Head(frames))>> \o SanitizeTimeline(Tail(frames))

sanitize_animation_script(script) ==
    IF script.t # "dict" THEN None
    ELSE LET metadata == Get(script, "metadata", EmptyDict)
             timeline == Get(script, "timeline", List(<<>>))
         IN  IF timeline.t # "list" THEN None
             ELSE MakeDict(ScriptKeys,
                      [metadata |-> metadata,
                       timeline |-> List(SanitizeTimeline(timeline.v))])

\* transcript[:100] + "..." if len(transcript) > 100 else transcript
TruncateTranscript(text) ==
    IF Len(text) > 100 THEN SubSeq(text, 1, 100) \o <<".", ".", ".">> ELSE text

\* TimesFraction truncating to whole seconds: float(int(duration_seconds * 0.25))
TimesFraction_Truncated(d, hundredths) ==
    PyFloat(((NumVal(d) * hundredths) \div 10000) * 100)

\* duration_seconds * 0.25, * 0.5, * 0.75: always a float
TimesFraction(d, hundredths) == PyFloat((NumVal(d) * hundredths) \div 100)

DefaultFrame(start, end, animation, expression, level, notes) ==
    MakeDict(FrameKeys,
        [startTime |-> start,
         endTime |-> end,
         animation |-> Str(<<animation>>),
         expression |-> Str(<<expression>>),
         intensity |-> PyFloat(level),
         notes |-> Str(<<notes>>)])

generate_default_animation_script(d, text) ==
    LET section_1 == TimesFraction(d, 25)
        section_2 == TimesFraction(d, 50)
        section_3 == TimesFraction(d, 75)
        timeline ==
            << DefaultFrame(PyInt(0), section_1, "idle", "neutral", 50,
                            "Opening - neutral stance, setting up"),
               DefaultFrame(section_1, section_2, "sitTalk", "smile", 70,
                            "Building - friendly, conversational tone"),
               DefaultFrame(section_2, section_3, "spellcast", "laugh", 90,
                            "Climax - high energy, emphasizing humor"),
               DefaultFrame(section_3, d, "relax", "smile", 60,
                            "Closing - settling down, satisfied expression") >>
    IN  MakeDict(ScriptKeys,
            [metadata |-> MakeDict(MetadataKeys,
                 [duration |-> d,
                  transcript |-> Str(TruncateTranscript(text)),
                  intensity |-> Str(<<"medium">>),
                  style |-> Str(<<"comedic">>),
                  notes |-> Str(<<"Generated using fallback pattern">>),
                  fallback |-> Bool(TRUE)]),
             timeline |-> List(timeline)])

----------------------------------------------------------------------------
(* animation_validator.py *)

\* an entry of the issue list: the message, and the keyframe index and field
\* the message is about (0 and "" when it has none)
Issue(msg) == [msg |-> msg, index |-> 0, field |-> ""]
FrameIssue(msg, index) == [msg |-> msg, index |-> index, field |-> ""]
FieldIssue(msg, index, field) == [msg |-> msg, index |-> index, field |-> field]

\* DurationMismatch with >= 2 for > 2
DurationMismatch_Inclusive(duration, expected_duration) ==
    LET diff == NumVal(duration) - NumVal(expected_duration)
    IN  ~IsNaN(duration) /\ (IF diff < 0 THEN 0 - diff ELSE diff) >= Sec(2)

\* abs(duration - expected_duration) > 2
DurationMismatch(duration, expected_duration) ==
    LET diff == NumVal(duration) - NumVal(expected_duration)
    IN  ~IsNaN(duration) /\ (IF diff < 0 THEN 0 - diff ELSE diff) > Sec(2)

validate_metadata(metadata, expected_duration) ==
    IF metadata.t # "dict"
    THEN <<Issue("Metadata must be a dictionary")>>
    ELSE LET duration == Get(metadata, "duration", None)
             text == Get(metadata, "transcript", None)
             level == Get(metadata, "intensity", None)
         IN  (IF duration = None
              THEN <<Issue("Metadata missing 'duration'")>>
              ELSE IF ~IsNumber(duration)
              THEN <<Issue("Metadata duration must be a number")>>
              ELSE IF Le(duration, PyInt(0))
              THEN <<Issue("Metadata duration must be positive")>>
              ELSE IF DurationMismatch(duration, expected_duration)
              THEN <<Issue("Duration mismatch")>>
              ELSE <<>>)
             \o
             (IF ~Truthy(text)
              THEN <<Issue("Metadata missing 'transcript'")>>
              ELSE IF text.t # "str"
              THEN <<Issue("Metadata transcript must be a string")>>
              ELSE <<>>)
             \o
             (IF Truthy(level)
                 /\ level \notin {Str(<<"low">>), Str(<<"medium">>), Str(<<"high">>)}
              THEN <<Issue("Metadata intensity must be 'low', 'medium', or 'high'")>>
              ELSE <<>>)

\* required_fields without intensity
required_fields_NoIntensity == <<"startTime", "endTime", "animation", "expression">>

required_fields == <<"startTime", "endTime", "animation", "expression", "intensity">>

\* the loop over required_fields
RECURSIVE MissingFieldIssues(_, _, _)
MissingFieldIssues(frame, index, fields) ==
    IF fields = <<>> THEN <<>>
    ELSE (IF Has(frame, Head(fields)) THEN <<>>
          ELSE <<FieldIssue("missing required field", index, Head(fields))>>)
         \o MissingFieldIssues(frame, index, Tail(fields))

\* `x not in AVAILABLE_...` hashes x: a list or a dict raises TypeError
Unhashable(x) == x.t \in {"list", "dict"}

\* whether _validate_keyframe raises: start_time < 0 and end_time <= start_time
\* compare a non-number, or the catalog lookup hashes a list or a dict
KeyframeRaises(frame) ==
    LET start_time == Get(frame, "startTime", None)
        end_time == Get(frame, "endTime", None)
        animation == Get(frame, "animation", None)
        expression == Get(frame, "expression", None)
    IN  \/ /\ start_time # None
           /\ end_time # None
           /\ (~IsNumber(start_time) \/ ~IsNumber(end_time))
        \/ Truthy(animation) /\ Unhashable(animation)
        \/ Truthy(expression) /\ Unhashable(expression)

\* the issue list of _validate_keyframe when it does not raise
validate_keyframe(frame, index, expected_duration) ==
    IF frame.t # "dict"
    THEN <<FrameIssue("Keyframe must be a dictionary", index)>>
    ELSE LET start_time == Get(frame, "startTime", None)
             end_time == Get(frame, "endTime", None)
             animation == Get(frame, "animation", None)
             expression == Get(frame, "expression", None)
             level == Get(frame, "intensity", None)
         IN  MissingFieldIssues(frame, index, required_fields)
             \o (IF start_time # None /\ ~IsNumber(start_time)
                 THEN <<FrameIssue("startTime must be numeric", index)>> ELSE <<>>)
             \o (IF end_time # None /\ ~IsNumber(end_time)
                 THEN <<FrameIssue("endTime must be numeric", index)>> ELSE <<>>)
             \o (IF start_time # None /\ end_time # None
                 THEN (IF Lt(start_time, PyInt(0))
                       THEN <<FrameIssue("startTime cannot be negative", index)>>
                       ELSE <<>>)
                      \o (IF Le(end_time, start_time)
                          THEN <<FrameIssue("endTime must be after startTime", index)>>
                          ELSE <<>>)
                      \o (IF Gt(end_time, PyFloat(NumVal(expected_duration) + Sec(1)))
                          THEN <<FrameIssue("endTime exceeds duration", index)>>
                          ELSE <<>>)
                 ELSE <<>>)
             \o (IF Truthy(animation) /\ animation \notin AVAILABLE_ANIMATIONS
                 THEN <<FrameIssue("invalid animation", index)>> ELSE <<>>)
             \o (IF Truthy(expression) /\ expression \notin AVAILABLE_EXPRESSIONS
                 THEN <<FrameIssue("invalid expression", index)>> ELSE <<>>)
             \o (IF level = None THEN <<>>
                 ELSE IF ~IsNumber(level)
                 THEN <<FrameIssue("intensity must be numeric", index)>>
                 ELSE IF ~(Le(PyFloat(0), level) /\ Le(level, PyFloat(Sec(1))))
                 THEN <<FrameIssue("intensity must be between 0.0 and 1.0", index)>>
                 ELSE <<>>)

\* whether _validate_timeline_continuity raises: it calls .get on every entry
\* (AttributeError on a non-dict) and compares or subtracts every startTime and
\* endTime that is present (TypeError on a non-number, None included)
ContinuityRaises(frames) ==
    \E i \in 1..Len(frames) :
        \/ frames[i].t # "dict"
        \/ ~IsNumber(Get(frames[i], "startTime", PyInt(0)))
        \/ ~IsNumber(Get(frames[i], "endTime", PyInt(0)))

\* GapExceeds with >= 1 for > 1
GapExceeds_Inclusive(current_end, next_start) ==
    /\ ~IsNaN(current_end)
    /\ ~IsNaN(next_start)
    /\ NumVal(next_start) - NumVal(current_end) >= Sec(1)

\* next_start - current_end > 1
GapExceeds(current_end, next_start) ==
    /\ ~IsNaN(current_end)
    /\ ~IsNaN(next_start)
    /\ NumVal(next_start) - NumVal(current_end) > Sec(1)

\* the loop over consecutive keyframes, i counted from 0 as in the code
RECURSIVE GapIssues(_, _)
GapIssues(frames, i) ==
    IF i + 2 > Len(frames) THEN <<>>
    ELSE (IF GapExceeds(Get(frames[i + 1], "endTime", PyInt(0)),
                        Get(frames[i + 2], "startTime", PyInt(0)))
          THEN <<FrameIssue("Gap in timeline", i)>>
          ELSE <<>>)
         \o GapIssues(frames, i + 1)

\* the issue list of _validate_timeline_continuity when it does not raise
validate_timeline_continuity(frames, expected_duration) ==
    IF frames = <<>> THEN <<>>
    ELSE LET first_frame == frames[1]
             last_frame == frames[Len(frames)]
             last_end == Get(last_frame, "endTime", PyInt(0))
         IN  (IF Gt(Get(first_frame, "startTime", PyInt(0)), PyFloat(50))
              THEN <<Issue("Timeline should start near 0 seconds")>>
              ELSE <<>>)
             \o (IF Lt(last_end, PyFloat(NumVal(expected_duration) - Sec(1)))
                 THEN <<Issue("Timeline ends before the expected duration")>>
                 ELSE <<>>)
             \o GapIssues(frames, 0)

\* the loop over enumerate(timeline)
RECURSIVE KeyframeIssues(_, _, _)
KeyframeIssues(frames, i, expected_duration) ==
    IF i + 1 > Len(frames) THEN <<>>
    ELSE validate_keyframe(frames[i + 1], i, expected_duration)
         \o KeyframeIssues(frames, i + 1, expected_duration)

\* KeyframeCountIssues asking for 2 keyframes where the code asks for 3
KeyframeCountIssues_MinTwo(frames) ==
    (IF Len(frames) > max_keyframes
     THEN <<Issue("Timeline has too many keyframes")>>
     ELSE <<>>)
    \o (IF Len(frames) < 2
        THEN <<Issue("Timeline should have at least 3 keyframes")>>
        ELSE <<>>)

\* the two checks of len(timeline)
KeyframeCountIssues(frames) ==
    (IF Len(frames) > max_keyframes
     THEN <<Issue("Timeline has too many keyframes")>>
     ELSE <<>>)
    \o (IF Len(frames) < 3
        THEN <<Issue("Timeline should have at least 3 keyframes")>>
        ELSE <<>>)

\* what a call of validate_animation_script does: raise, or return (is_valid, issues)
Raised == [raised |-> TRUE, is_valid |-> FALSE, issues |-> <<>>]

\* Return with the two keyframe-count issues left out of the verdict
Return_CountNotFatal(is_valid, issues) ==
    [raised |-> FALSE,
     is_valid |-> \A i \in 1..Len(issues) :
                      issues[i].msg \in {"Timeline has too many keyframes",
                                         "Timeline should have at least 3 keyframes"},
     issues |-> issues]

Return(is_valid, issues) == [raised |-> FALSE, is_valid |-> is_valid, issues |-> issues]

validate_animation_script(script, expected_duration) ==
    IF script.t # "dict"
    THEN Return(FALSE, <<Issue("Script must be a dictionary")>>)
    ELSE LET metadata == Get(script, "metadata", None)
             metadata_issues ==
                 IF ~Truthy(metadata)
                 THEN <<Issue("Missing 'metadata' section")>>
                 ELSE validate_metadata(metadata, expected_duration)
             timeline == Get(script, "timeline", List(<<>>))
         IN  IF ~Truthy(timeline)
             THEN LET issues == metadata_issues \o <<Issue("Timeline is empty or missing")>>
                  IN  Return(Len(issues) = 0, issues)
             ELSE IF timeline.t # "list"
             THEN Return(FALSE, metadata_issues \o <<Issue("Timeline must be a list")>>)
             ELSE LET frames == timeline.v
                      issues ==
                          metadata_issues
                          \o KeyframeCountIssues(frames)
                          \o KeyframeIssues(frames, 0, expected_duration)
                          \o validate_timeline_continuity(frames, expected_duration)
                  IN  IF (\E i \in 1..Len(frames) :
                              frames[i].t = "dict" /\ KeyframeRaises(frames[i]))
                         \/ ContinuityRaises(frames)
                      THEN Raised
                      ELSE Return(Len(issues) = 0, issues)

----------------------------------------------------------------------------
(* The text model's answers: the scripts json.loads can hand to the pipeline. *)
(* A script is a well-formed script of n keyframes over [0, d], as the prompt *)
(* asks for, with at most one place of it changed to any value of ValuePool,  *)
(* removed, or moved in time.                                                 *)

\* longest timeline whose places are changed one at a time
MaxFrames == 3

\* a JSON number as json.loads reads it: an int when it has no fraction
Number(n) == IF n % 100 = 0 THEN PyInt(n) ELSE PyFloat(n)

BaseAnimations == <<"idle", "run", "sitTalk", "spellcast", "relax", "walkRelaxed", "walkThink">>
BaseExpressions == <<"neutral", "laugh", "smile", "shocked", "angry", "confused">>
BaseLevels == <<50, 90, 70, 100, 0>>

Cycle(seq, k) == seq[((k - 1) % Len(seq)) + 1]

\* keyframe k of n over [0, d]: the five required fields, no notes
BaseFrame(k, n, d) ==
    MakeDict(FrameKeys,
        [startTime |-> Number(((k - 1) * d) \div n),
         endTime |-> Number((k * d) \div n),
         animation |-> Str(<<Cycle(BaseAnimations, k)>>),
         expression |-> Str(<<Cycle(BaseExpressions, k)>>),
         intensity |-> PyFloat(Cycle(BaseLevels, k))])

BaseMetadata(d) ==
    MakeDict(MetadataKeys,
        [duration |-> Number(d),
         transcript |-> Str(<<"N", "i", "c", "e">>),
         intensity |-> Str(<<"medium">>),
         style |-> Str(<<"deadpan">>),
         notes |-> Str(<<"builds to the punchline">>)])

BaseScript(n, d) ==
    MakeDict(ScriptKeys,
        [metadata |-> BaseMetadata(d),
         timeline |-> List([k \in 1..n |-> BaseFrame(k, n, d)])])

\* values of every JSON type (and of nan, which json.loads accepts)
ValuePool ==
    { None, Bool(FALSE), Bool(TRUE), NaN,
      PyInt(0), PyInt(Sec(1)), PyInt(Sec(2)), PyInt(Sec(150)),
      PyFloat(50), PyFloat(0 - 4), PyFloat(Sec(1) + 4),
      Str(<<>>), Str(<<"idle">>), Str(<<"neutral">>), Str(<<"dance">>), Str(<<"high">>),
      List(<<>>), List(<<PyInt(0)>>),
      EmptyDict, Dict([k \in {"k"} |-> PyInt(0)]) }

\* how far a startTime or an endTime is moved
Shifts == {0 - Sec(1), 0 - 4, 4, 50, 54, Sec(1), Sec(1) + 4}

\* d with key set to x (Missing removes the key)
With(d, key, x) == Dict([d.v EXCEPT ![key] = x])

WithFrame(script, i, frame) ==
    With(script, "timeline", List([script.v["timeline"].v EXCEPT ![i] = frame]))

\* the scripts one change away from script, a script of n keyframes
Variants(script, n) ==
    {script}
    \cup {With(script, key, x) : key \in ScriptKeys, x \in ValuePool \cup {Missing}}
    \cup {With(script, "metadata", With(script.v["metadata"], key, x)) :
              key \in MetadataKeys, x \in ValuePool \cup {Missing}}
    \cup {WithFrame(script, i, x) : i \in 1..n, x \in ValuePool}
    \cup {WithFrame(script, i, With(script.v["timeline"].v[i], key, x)) :
              i \in 1..n, key \in FrameKeys, x \in ValuePool \cup {Missing}}
    \cup {WithFrame(script, i,
              With(script.v["timeline"].v[i], key,
                   Number(NumVal(script.v["timeline"].v[i].v[key]) + delta))) :
              i \in 1..n, key \in {"startTime", "endTime"}, delta \in Shifts}

\* the durations, in hundredths, scripts are written for and asked for
ScriptDurations == {Sec(10), Sec(11), Sec(12)}

Scripts ==
    UNION {Variants(BaseScript(n, d), n) : n \in 0..MaxFrames, d \in ScriptDurations}
    \cup {BaseScript(n, d) : n \in {max_keyframes, max_keyframes + 1}, d \in ScriptDurations}

----------------------------------------------------------------------------
(* The text model's response.  The text of the first part is a sequence of    *)
(* segments: "chars" is text without braces, "open" text holding a '{' that   *)
(* starts no JSON object, "close" text holding a '}' that ends none, and      *)
(* "object" the serialisation of the JSON object doc.                         *)

Segment(kind, doc) == [seg |-> kind, doc |-> doc]
Chars == Segment("chars", None)
Open == Segment("open", None)
Close == Segment("close", None)
Object(doc) == Segment("object", doc)

Response(kind, text) == [kind |-> kind, text |-> text]
NoResponse == Response("none", <<>>)

\* longest response text, in segments, that is not a single JSON object
MaxSegments == 3

SegmentPool == {Chars, Open, Close, Object(BaseScript(3, Sec(10)))}

RECURSIVE Texts(_)
Texts(n) ==
    IF n = 0 THEN {<<>>}
    ELSE LET shorter == Texts(n - 1)
         IN  shorter \cup {Append(t, seg) : t \in {u \in shorter : Len(u) = n - 1},
                                            seg \in SegmentPool}

Responses ==
    {Response("raises", <<>>), Response("no_candidates", <<>>), Response("no_text", <<>>)}
    \cup {Response("text", <<Object(doc)>>) : doc \in Scripts}
    \cup {Response("text", t) : t \in Texts(MaxSegments)}

----------------------------------------------------------------------------
(* animation_utils.py: parse_animation_response *)

HasOpen(seg) == seg.seg \in {"open", "object"}
HasClose(seg) == seg.seg \in {"close", "object"}

\* response_text.find('{') and response_text.rfind('}'), as segment indices (0: none)
FindOpen(text) ==
    IF \E i \in 1..Len(text) : HasOpen(text[i])
    THEN CHOOSE i \in 1..Len(text) :
             HasOpen(text[i]) /\ \A j \in 1..(i - 1) : ~HasOpen(text[j])
    ELSE 0
FindClose(text) ==
    IF \E i \in 1..Len(text) : HasClose(text[i])
    THEN CHOOSE i \in 1..Len(text) :
             HasClose(text[i]) /\ \A j \in (i + 1)..Len(text) : ~HasClose(text[j])
    ELSE 0

\* (parsed, error): json.loads accepts the span from the first '{' to the last
\* '}' only when the span is one JSON object
ParseResult(parsed, error) == [parsed |-> parsed, error |-> error]

parse_animation_response(text) ==
    LET json_start == FindOpen(text)
        json_end == FindClose(text)
    IN  IF json_start = 0 \/ json_end < json_start
        THEN ParseResult(None, TRUE)
        ELSE IF json_start = json_end /\ text[json_start].seg = "object"
        THEN ParseResult(text[json_start].doc, FALSE)
        ELSE ParseResult(None, TRUE)

----------------------------------------------------------------------------
(* animation_service.py *)

\* _call_gemini_for_animation: the parsed script, or None
call_gemini_for_animation(r) ==
    IF r.kind = "raises" THEN None
    ELSE IF r.kind = "no_candidates" THEN None
    ELSE IF r.kind = "no_text" THEN None
    ELSE LET result == parse_animation_response(r.text)
         IN  IF result.error THEN None ELSE result.parsed

NotValidated == [raised |-> FALSE, is_valid |-> FALSE, issues |-> <<>>]

\* len(transcript) > 100 in generate_default_animation_script
TranscriptLimit == 100

\* how far past the limit the transcripts reach
ExtraChars == 2

TranscriptOf(n) == [i \in 1..n |-> IF i % 2 = 1 THEN "a" ELSE "b"]
Transcripts ==
    {TranscriptOf(n) : n \in {0, 1} \cup ((TranscriptLimit - 1)..(TranscriptLimit + ExtraChars))}

\* the durations asked for
Durations ==
    {PyInt(0), PyFloat(48), PyInt(Sec(10)), PyInt(Sec(12)), PyFloat(Sec(12) + 4), PyInt(Sec(20))}

Calls ==
    {<<text, PyInt(Sec(10))>> : text \in Transcripts}
    \cup {<<TranscriptOf(1), d>> : d \in Durations}

\* the animation pipeline is not in use
AnimationIdle ==
    /\ transcript = <<>>
    /\ duration_seconds = PyInt(0)
    /\ animation_script = None
    /\ validation = NotValidated
    /\ value = Missing
    /\ intensity = Missing

\* the roast, narration, speech, audio and image functions and the handler are
\* not in use
RoastIdle ==
    /\ calls = <<>>
    /\ roast_data = Missing
    /\ strategy = [name |-> "none", part |-> 0]
    /\ exception = [type |-> "none", message |-> <<>>]
    /\ narration_text = Missing
    /\ environment = Missing
    /\ audio_base64 = Missing
    /\ artifacts = {}
    /\ pcm_data = <<>>
    /\ wav_data = <<>>
    /\ image = Missing
    /\ new_size = Missing
    /\ request = Missing
    /\ reply = Missing
    /\ temp_dir = Missing
    /\ callers = <<>>

Init ==
    /\ RoastIdle
    /\ pc = "start"
    /\ \E call \in Calls : transcript = call[1] /\ duration_seconds = call[2]
    /\ response = NoResponse
    /\ animation_script = None
    /\ validation = NotValidated
    /\ returned = Missing
    /\ value = Missing
    /\ intensity = Missing

\* lines 58-61: the prompt is built and the model called; its answer is
\* extracted and parsed
CallGemini ==
    /\ pc = "start"
    /\ \E r \in Responses :
           /\ response' = r
           /\ animation_script' = call_gemini_for_animation(r)
    /\ pc' = "called"
    /\ UNCHANGED <<transcript, duration_seconds, validation, returned, value, intensity>>
    /\ UNCHANGED roastVars

\* lines 63-65
NoScript ==
    /\ pc = "called"
    /\ animation_script = None
    /\ returned' = generate_default_animation_script(duration_seconds, transcript)
    /\ pc' = "done"
    /\ UNCHANGED <<transcript, duration_seconds, response, animation_script,
                   validation, value, intensity>>
    /\ UNCHANGED roastVars

\* Validate with the validator called outside the try block: an exception
\* leaves generate_animation_script
Validate_OutsideTry ==
    /\ pc = "called"
    /\ animation_script # None
    /\ validation' = validate_animation_script(animation_script, duration_seconds)
    /\ pc' = IF validation'.raised THEN "raised" ELSE "validated"
    /\ UNCHANGED <<transcript, duration_seconds, response, animation_script,
                   returned, value, intensity>>
    /\ UNCHANGED roastVars

\* line 68: an exception leaves the try block for the handler
Validate ==
    /\ pc = "called"
    /\ animation_script # None
    /\ validation' = validate_animation_script(animation_script, duration_seconds)
    /\ pc' = IF validation'.raised THEN "except" ELSE "validated"
    /\ UNCHANGED <<transcript, duration_seconds, response, animation_script,
                   returned, value, intensity>>
    /\ UNCHANGED roastVars

\* ValidationFailed without the return of the fallback: the rejected script
\* goes on to the sanitizer
ValidationFailed_KeepsScript ==
    /\ pc = "validated"
    /\ validation.issues # <<>> /\ ~validation.is_valid
    /\ returned' = sanitize_animation_script(animation_script)
    /\ pc' = "done"
    /\ UNCHANGED <<transcript, duration_seconds, response, animation_script,
                   validation, value, intensity>>
    /\ UNCHANGED roastVars

\* lines 70-74
ValidationFailed ==
    /\ pc = "validated"
    /\ validation.issues # <<>> /\ ~validation.is_valid
    /\ returned' = generate_default_animation_script(duration_seconds, transcript)
    /\ pc' = "done"
    /\ UNCHANGED <<transcript, duration_seconds, response, animation_script,
                   validation, value, intensity>>
    /\ UNCHANGED roastVars

\* lines 77-80: sanitized.get raises when the sanitizer returned None
SanitizeAndReturn ==
    /\ pc = "validated"
    /\ ~(validation.issues # <<>> /\ ~validation.is_valid)
    /\ LET sanitized == sanitize_animation_script(animation_script)
       IN  IF sanitized = None
           THEN pc' = "except" /\ UNCHANGED returned
           ELSE pc' = "done" /\ returned' = sanitized
    /\ UNCHANGED <<transcript, duration_seconds, response, animation_script,
                   validation, value, intensity>>
    /\ UNCHANGED roastVars

\* lines 82-85
ExceptHandler ==
    /\ pc = "except"
    /\ returned' = generate_default_animation_script(duration_seconds, transcript)
    /\ pc' = "done"
    /\ UNCHANGED <<transcript, duration_seconds, response, animation_script,
                   validation, value, intensity>>
    /\ UNCHANGED roastVars

Next ==
    \/ CallGemini
    \/ NoScript
    \/ Validate
    \/ ValidationFailed
    \/ SanitizeAndReturn
    \/ ExceptHandler

Spec == Init /\ [][Next]_vars

----------------------------------------------------------------------------
(* generate_default_animation_script and the validator's verdict on its      *)
(* result, for every transcript and duration of the bounded sets             *)

\* the fallback generator is called with the multiples of 0.04 up to this many
MaxDurationSteps == 300

FallbackDurations ==
    {PyFloat(4 * k) : k \in 0..MaxDurationSteps}
    \cup {PyInt(Sec(k)) : k \in 0..(MaxDurationSteps \div 25)}

FallbackInit ==
    /\ RoastIdle
    /\ pc = "fallback_call"
    /\ transcript \in Transcripts
    /\ duration_seconds \in FallbackDurations
    /\ response = NoResponse
    /\ animation_script = None
    /\ validation = NotValidated
    /\ returned = Missing
    /\ value = Missing
    /\ intensity = Missing

GenerateDefault ==
    /\ pc = "fallback_call"
    /\ returned' = generate_default_animation_script(duration_seconds, transcript)
    /\ pc' = "fallback_done"
    /\ UNCHANGED <<transcript, duration_seconds, response, animation_script,
                   validation, value, intensity>>
    /\ UNCHANGED roastVars

ValidateDefault ==
    /\ pc = "fallback_done"
    /\ validation' = validate_animation_script(returned, duration_seconds)
    /\ pc' = "fallback_checked"
    /\ UNCHANGED <<transcript, duration_seconds, response, animation_script,
                   returned, value, intensity>>
    /\ UNCHANGED roastVars

FallbackNext == GenerateDefault \/ ValidateDefault

FallbackSpec == FallbackInit /\ [][FallbackNext]_vars

----------------------------------------------------------------------------
(* sanitize_animation_script on every script of the bounded set, and on      *)
(* values that are no script at all                                          *)

SanitizeInit ==
    /\ RoastIdle
    /\ pc = "sanitize_call"
    /\ animation_script \in Scripts \cup ValuePool
    /\ transcript = <<>>
    /\ duration_seconds = PyInt(0)
    /\ response = NoResponse
    /\ validation = NotValidated
    /\ returned = Missing
    /\ value = Missing
    /\ intensity = Missing

Sanitize ==
    /\ pc = "sanitize_call"
    /\ returned' = sanitize_animation_script(animation_script)
    /\ pc' = "sanitize_done"
    /\ UNCHANGED <<transcript, duration_seconds, response, animation_script,
                   validation, value, intensity>>
    /\ UNCHANGED roastVars

SanitizeNext == Sanitize

SanitizeSpec == SanitizeInit /\ [][SanitizeNext]_vars

----------------------------------------------------------------------------
(* clamp_intensity on values of every type *)

\* the numbers clamp_intensity is called with reach this far either side of 0,
\* in hundredths
MaxLevel == 250

ClampInputs ==
    ValuePool
    \cup {Str(<<"x">>)}
    \cup {PyFloat(n) : n \in (0 - MaxLevel)..MaxLevel}
    \cup {PyInt(Sec(k)) : k \in {0 - 2, 0 - 1, 0, 1, 2}}

ClampInit ==
    /\ RoastIdle
    /\ pc = "clamp_call"
    /\ value \in ClampInputs
    /\ intensity = Missing
    /\ transcript = <<>>
    /\ duration_seconds = PyInt(0)
    /\ response = NoResponse
    /\ animation_script = None
    /\ validation = NotValidated
    /\ returned = Missing

Clamp ==
    /\ pc = "clamp_call"
    /\ intensity' = clamp_intensity(value)
    /\ pc' = "clamp_done"
    /\ UNCHANGED <<transcript, duration_seconds, response, animation_script,
                   validation, returned, value>>
    /\ UNCHANGED roastVars

ClampNext == Clamp

ClampSpec == ClampInit /\ [][ClampNext]_vars

----------------------------------------------------------------------------
(* The text of a vision response.  A text is a sequence of characters; a     *)
(* character is a record [c, n].  The words that the code or JSON reads as a  *)
(* unit (the key names, "json", "null", "NaN") are one entry of several       *)
(* characters, of which n is the count; every other entry is one character.   *)

Char(c) == [c |-> c, n |-> 1]
Chunk(c, n) == [c |-> c, n |-> n]

Quote == Char("quote")
Space == Char(" ")
Backtick == Char("backtick")
Fence == <<Backtick, Backtick, Backtick>>
JsonWord == Chunk("json", 4)
NullWord == Chunk("null", 4)
NaNWord == Chunk("NaN", 3)
\* what is left of a chunk that lost its last character
Partial == Chunk("partial", 1)

Digits == <<"0", "1", "2", "3", "4", "5", "6", "7", "8", "9">>
IsDigit(ch) == \E d \in 1..10 : ch.c = Digits[d]
DigitValue(ch) == (CHOOSE d \in 1..10 : ch.c = Digits[d]) - 1

\* the keys of the roast schema (config.ROAST_SCHEMA)
RoastKeys == {"overall_vibe", "roast_lines", "confidence_rating", "style_tags", "one_liner"}
RoastKeyOrder == <<"overall_vibe", "roast_lines", "confidence_rating", "style_tags", "one_liner">>
KeyChunk(key) == Chunk(key, 10)

\* str(n) of a non-negative int n
RECURSIVE DecimalDigits(_)
DecimalDigits(n) ==
    IF n < 10 THEN <<Char(Digits[n + 1])>>
    ELSE Append(DecimalDigits(n \div 10), Char(Digits[(n % 10) + 1]))

\* json.dumps of a value: what the vision model writes for a document
RECURSIVE Serialize(_)
RECURSIVE SerializeElements(_, _)
RECURSIVE SerializeMembers(_, _, _)
SerializeElements(elements, i) ==
    IF i > Len(elements) THEN <<>>
    ELSE (IF i > 1 THEN <<Char(","), Space>> ELSE <<>>)
         \o Serialize(elements[i]) \o SerializeElements(elements, i + 1)
SerializeMembers(d, i, first) ==
    IF i > Len(RoastKeyOrder) THEN <<>>
    ELSE LET key == RoastKeyOrder[i]
         IN  IF ~Has(d, key) THEN SerializeMembers(d, i + 1, first)
             ELSE (IF first THEN <<>> ELSE <<Char(","), Space>>)
                  \o <<Quote, KeyChunk(key), Quote, Char(":"), Space>>
                  \o Serialize(d.v[key])
                  \o SerializeMembers(d, i + 1, FALSE)
Serialize(x) ==
    CASE x.t = "null" -> <<NullWord>>
      [] x.t = "nan" -> <<NaNWord>>
      [] x.t = "int" ->
             IF x.v < 0 THEN <<Char("-")>> \o DecimalDigits((0 - x.v) \div 100)
             ELSE DecimalDigits(x.v \div 100)
      [] x.t = "str" -> <<Quote>> \o [i \in 1..Len(x.v) |-> Char(x.v[i])] \o <<Quote>>
      [] x.t = "list" -> <<Char("[")>> \o SerializeElements(x.v, 1) \o <<Char("]")>>
      [] x.t = "dict" -> <<Char("{")>> \o SerializeMembers(x, 1, TRUE) \o <<Char("}")>>

\* json.loads: a recursive-descent reading of one JSON value.  A reading is
\* [ok, v, i]: whether a value was read, the value, and the place after it.
JsonFail == [ok |-> FALSE, v |-> None, i |-> 0]
JsonOk(v, i) == [ok |-> TRUE, v |-> v, i |-> i]

\* a dict read from JSON: the schema's keys, and one place for any other key
JsonKeys == RoastKeys \cup {"other"}
JsonKey(name) == IF Len(name.v) = 1 /\ name.v[1] \in RoastKeys THEN name.v[1] ELSE "other"

RECURSIVE SkipSpace(_, _)
SkipSpace(s, i) == IF i <= Len(s) /\ s[i] = Space THEN SkipSpace(s, i + 1) ELSE i

\* s[i] is the opening quote: the string runs to the next quote
JsonString(s, i) ==
    IF \E j \in (i + 1)..Len(s) : s[j] = Quote
    THEN LET j == CHOOSE j \in (i + 1)..Len(s) :
                      s[j] = Quote /\ \A k \in (i + 1)..(j - 1) : s[k] # Quote
         IN  JsonOk(Str([k \in 1..(j - i - 1) |-> s[i + k].c]), j + 1)
    ELSE JsonFail

\* the digits from s[i] on, as a number
RECURSIVE JsonDigits(_, _, _)
JsonDigits(s, i, n) ==
    IF i <= Len(s) /\ IsDigit(s[i])
    THEN JsonDigits(s, i + 1, 10 * n + DigitValue(s[i]))
    ELSE [n |-> n, i |-> i]

\* -?(0|[1-9][0-9]*)
JsonNumber(s, i) ==
    LET negative == s[i] = Char("-")
        first == IF negative THEN i + 1 ELSE i
    IN  IF first > Len(s) \/ ~IsDigit(s[first]) THEN JsonFail
        ELSE IF s[first] = Char("0") THEN JsonOk(PyInt(0), first + 1)
        ELSE LET digits == JsonDigits(s, first, 0)
             IN  JsonOk(PyInt(Sec(IF negative THEN 0 - digits.n ELSE digits.n)), digits.i)

RECURSIVE JsonValue(_, _)
RECURSIVE JsonElements(_, _, _)
RECURSIVE JsonMembers(_, _, _)

\* after '[' or ',': a value, then ',' or ']'
JsonElements(s, i, elements) ==
    LET element == JsonValue(s, i)
        after == SkipSpace(s, element.i)
    IN  IF ~element.ok \/ after > Len(s) THEN JsonFail
        ELSE IF s[after] = Char("]") THEN JsonOk(List(Append(elements, element.v)), after + 1)
        ELSE IF s[after] = Char(",") THEN JsonElements(s, after + 1, Append(elements, element.v))
        ELSE JsonFail

\* after '{' or ',': a key, ':', a value, then ',' or '}'
JsonMembers(s, i, members) ==
    LET at == SkipSpace(s, i)
        key == IF at <= Len(s) /\ s[at] = Quote THEN JsonString(s, at) ELSE JsonFail
        colon == SkipSpace(s, key.i)
    IN  IF ~key.ok \/ colon > Len(s) THEN JsonFail
        ELSE IF s[colon] # Char(":") THEN JsonFail
        ELSE LET member == JsonValue(s, colon + 1)
                 after == SkipSpace(s, member.i)
                 read == [members EXCEPT ![JsonKey(key.v)] = member.v]
             IN  IF ~member.ok \/ after > Len(s) THEN JsonFail
                 ELSE IF s[after] = Char("}") THEN JsonOk(Dict(read), after + 1)
                 ELSE IF s[after] = Char(",") THEN JsonMembers(s, after + 1, read)
                 ELSE JsonFail

JsonValue(s, i) ==
    LET at == SkipSpace(s, i)
    IN  IF at > Len(s) THEN JsonFail
        ELSE IF s[at] = Char("{") THEN
            IF SkipSpace(s, at + 1) <= Len(s) /\ s[SkipSpace(s, at + 1)] = Char("}")
            THEN JsonOk(Dict([k \in JsonKeys |-> Missing]), SkipSpace(s, at + 1) + 1)
            ELSE JsonMembers(s, at + 1, [k \in JsonKeys |-> Missing])
        ELSE IF s[at] = Char("[") THEN
            IF SkipSpace(s, at + 1) <= Len(s) /\ s[SkipSpace(s, at + 1)] = Char("]")
            THEN JsonOk(List(<<>>), SkipSpace(s, at + 1) + 1)
            ELSE JsonElements(s, at + 1, <<>>)
        ELSE IF s[at] = Quote THEN JsonString(s, at)
        ELSE IF s[at] = Char("-") \/ IsDigit(s[at]) THEN JsonNumber(s, at)
        ELSE IF s[at] = NullWord THEN JsonOk(None, at + 1)
        ELSE IF s[at] = NaNWord THEN JsonOk(NaN, at + 1)
        ELSE JsonFail

\* json.loads(s): the whole of s is one value; JSONDecodeError otherwise
json_loads(s) ==
    LET reading == JsonValue(s, 1)
    IN  IF reading.ok /\ SkipSpace(s, reading.i) > Len(s) THEN reading ELSE JsonFail

----------------------------------------------------------------------------
(* roast_service.py: the manual parse of generate_roast (lines 102-173) *)

\* s.strip()
RECURSIVE StripRight(_)
StripRight(s) ==
    IF s # <<>> /\ s[Len(s)] = Space THEN StripRight(SubSeq(s, 1, Len(s) - 1)) ELSE s
Strip(s) == LET first == SkipSpace(s, 1) IN StripRight(SubSeq(s, first, Len(s)))

\* s.count(c) of a character c
Count(s, ch) == Cardinality({i \in 1..Len(s) : s[i] = ch})

\* s + c * n (nothing when n is negative, as range(n) is empty)
Pad(s, ch, n) == s \o [i \in 1..(IF n > 0 THEN n ELSE 0) |-> ch]

\* lines 125-142: the text with its open quote, brackets and braces closed
Repaired(raw_text) ==
    LET open_braces == Count(raw_text, Char("{"))
        close_braces == Count(raw_text, Char("}"))
        open_brackets == Count(raw_text, Char("["))
        close_brackets == Count(raw_text, Char("]"))
        quoted == IF Count(raw_text, Quote) % 2 # 0 THEN Append(raw_text, Quote) ELSE raw_text
    IN  Pad(Pad(quoted, Char("]"), open_brackets - close_brackets),
            Char("}"), open_braces - close_braces)

\* s.find("```", from): the first place at or after from where three backticks
\* start; 0 when there is none (Python's -1)
FindFence(s, from) ==
    LET starts == {i \in from..(Len(s) - 2) :
                       s[i] = Backtick /\ s[i + 1] = Backtick /\ s[i + 2] = Backtick}
    IN  IF starts = {} THEN 0 ELSE CHOOSE i \in starts : \A j \in starts : i <= j

\* s.find("```json"), likewise
FindJsonFence(s) ==
    LET starts == {i \in 1..(Len(s) - 3) :
                       /\ s[i] = Backtick /\ s[i + 1] = Backtick /\ s[i + 2] = Backtick
                       /\ s[i + 3] = JsonWord}
    IN  IF starts = {} THEN 0 ELSE CHOOSE i \in starts : \A j \in starts : i <= j

\* s[from:-1]: s from from on without its last character
DropLast(s, from) ==
    IF from > Len(s) THEN <<>>
    ELSE IF s[Len(s)].n = 1 THEN SubSeq(s, from, Len(s) - 1)
    ELSE IF from = Len(s) THEN <<Partial>>
    ELSE Append(SubSeq(s, from, Len(s) - 1), Partial)

\* raw_text[json_start:json_end].strip() with json_end = raw_text.find("```", json_start)
Fenced(raw_text, json_start) ==
    LET json_end == FindFence(raw_text, json_start)
    IN  Strip(IF json_end = 0 THEN DropLast(raw_text, json_start)
              ELSE SubSeq(raw_text, json_start, json_end - 1))

\* lines 151-170: the text inside the code fence, read as JSON
ExtractFenced(raw_text) ==
    IF FindJsonFence(raw_text) # 0
    THEN json_loads(Fenced(raw_text, FindJsonFence(raw_text) + 4))
    ELSE IF FindFence(raw_text, 1) # 0
    THEN json_loads(Fenced(raw_text, FindFence(raw_text, 1) + 3))
    ELSE JsonFail

\* what the manual parse found: the value, and the strategy and part it came from
NoStrategy == [name |-> "none", part |-> 0]
Parsed(data, name, part) == [found |-> TRUE, data |-> data, name |-> name, part |-> part]
NotParsed == [found |-> FALSE, data |-> None, name |-> "none", part |-> 0]

\* hasattr(part, 'text') and part.text
HasText(part) == part.text.t = "str" /\ part.text.v # <<>>

\* TryPart with the code fence stripped before the repair is tried
TryPart_FenceBeforeRepair(part_text, finish_reason, i) ==
    LET raw_text == Strip(part_text)
        direct == json_loads(raw_text)
        repaired == IF finish_reason = "MAX_TOKENS" THEN json_loads(Repaired(raw_text))
                    ELSE JsonFail
        fenced == ExtractFenced(raw_text)
    IN  IF direct.ok THEN Parsed(direct.v, "direct", i)
        ELSE IF fenced.ok THEN Parsed(fenced.v, "fenced", i)
        ELSE IF repaired.ok THEN Parsed(repaired.v, "repaired", i)
        ELSE NotParsed

\* lines 108-170, one pass of the loop body: json.loads of the text; when that
\* fails and the finish reason is MAX_TOKENS, json.loads of the repaired text;
\* when that fails or was not tried, json.loads of the text inside the fence
TryPart(part_text, finish_reason, i) ==
    LET raw_text == Strip(part_text)
        direct == json_loads(raw_text)
        repaired == IF finish_reason = "MAX_TOKENS" THEN json_loads(Repaired(raw_text))
                    ELSE JsonFail
        fenced == ExtractFenced(raw_text)
    IN  IF direct.ok THEN Parsed(direct.v, "direct", i)
        ELSE IF repaired.ok THEN Parsed(repaired.v, "repaired", i)
        ELSE IF fenced.ok THEN Parsed(fenced.v, "fenced", i)
        ELSE NotParsed

\* lines 106-170: the loop over the parts, left by break at the first success
RECURSIVE ManualParse(_, _, _)
ManualParse(parts, i, finish_reason) ==
    IF i > Len(parts) THEN NotParsed
    ELSE IF HasText(parts[i]) /\ TryPart(parts[i].text.v, finish_reason, i).found
    THEN TryPart(parts[i].text.v, finish_reason, i)
    ELSE ManualParse(parts, i + 1, finish_reason)

----------------------------------------------------------------------------
(* The vision model's responses *)

\* an object that is no dict and has a __dict__ (a parsed schema instance)
Object_(fields) == [t |-> "object", v |-> fields]

Part(part_text) == [text |-> part_text]
Content(parts) == [present |-> TRUE, parts |-> parts]
NoContent == [present |-> FALSE, parts |-> <<>>]
Candidate(finish_reason, content) == [finish_reason |-> finish_reason, content |-> content]
VisionResponse(candidates, parsed) ==
    [kind |-> "vision", candidates |-> candidates, parsed |-> parsed]

\* the confidence ratings the model writes reach this far either side of 0
MaxRating == 16

\* a roast with confidence_rating c
RoastDoc(c) ==
    MakeDict(JsonKeys,
        [overall_vibe |-> Str(<<"V">>),
         roast_lines |-> List(<<Str(<<"a">>), Str(<<"b">>)>>),
         confidence_rating |-> c,
         style_tags |-> List(<<Str(<<"t">>)>>),
         one_liner |-> Str(<<"L">>)])

\* the roasts that JSON text can carry
WrittenDocs ==
    {RoastDoc(PyInt(Sec(k))) : k \in (0 - MaxRating)..MaxRating}
    \cup {RoastDoc(c) : c \in {Missing, None, NaN, Str(<<"9">>), List(<<PyInt(Sec(9))>>)}}
    \cup {Dict([k \in JsonKeys |-> Missing])}

\* the values response.parsed can hold besides None
ParsedValues ==
    WrittenDocs
    \cup {RoastDoc(c) : c \in {Bool(TRUE), PyFloat(750), PyFloat(Sec(10) + 4), PyFloat(0 - 4)}}
    \cup {Object_(RoastDoc(PyInt(Sec(k))).v) : k \in {0 - 5, 0, 10, 15}}
    \cup {List(<<>>), Str(<<"V">>)}

Prefixes(s) == {SubSeq(s, 1, n) : n \in 0..Len(s)}

FullText == Serialize(RoastDoc(PyInt(Sec(15))))

\* a roast as JSON with other words before it, after it, and on both sides,
\* outside any code fence
UnfencedTexts ==
    { <<Char("H"), Space>> \o FullText,
      FullText \o <<Space, Char("T")>>,
      <<Char("H"), Space>> \o FullText \o <<Space, Char("T")>> }

\* the texts of a part: a roast as JSON, alone, cut short, inside a code fence
\* with and without the word json, with and without the closing fence, after
\* other words; texts that are no roast; and a cut-off roast with a code fence
\* inside a string
RoastTexts ==
    {Serialize(doc) : doc \in WrittenDocs}
    \cup Prefixes(FullText)
    \cup Prefixes(Fence \o <<JsonWord, Space>> \o FullText \o <<Space>> \o Fence)
    \cup Prefixes(<<Char("H"), Space>> \o Fence \o <<Space>> \o FullText \o Fence)
    \cup UnfencedTexts
    \cup { <<Space>> \o FullText \o <<Space>>,
           Fence \o <<JsonWord>> \o Serialize(PyInt(Sec(15))),
           Fence \o Serialize(PyInt(Sec(15))),
           Fence \o <<JsonWord>> \o FullText \o <<Char("}")>>,
           <<NullWord>>, <<Char("S")>>, Serialize(PyInt(Sec(7))),
           Serialize(List(<<Str(<<"a">>)>>)),
           <<Char("{"), Quote, KeyChunk("one_liner"), Quote, Char(":"), Space, Quote>>
               \o Fence \o <<Char("7")>> \o Fence \o <<Quote>> }

\* what stands before the last part of a response of two parts
FirstParts ==
    {Part(Missing), Part(None), Part(Str(<<>>)), Part(Str(<<Char("S")>>)),
     Part(Str(<<NullWord>>)), Part(Str(Serialize(RoastDoc(PyInt(0)))))}

PartLists ==
    {<<>>}
    \cup {<<Part(Str(t))>> : t \in RoastTexts}
    \cup {<<first, Part(Str(t))>> :
              first \in FirstParts,
              t \in {Serialize(RoastDoc(PyInt(Sec(10)))), <<Char("S")>>,
                     Fence \o FullText \o Fence}}

FinishReasons == {"STOP", "MAX_TOKENS"}

VisionResponses ==
    {VisionResponse(<<>>, None)}
    \cup {VisionResponse(<<Candidate("STOP", Content(<<Part(Str(FullText))>>))>>, parsed) :
              parsed \in ParsedValues}
    \cup {VisionResponse(<<Candidate(reason, NoContent)>>, None) : reason \in FinishReasons}
    \cup {VisionResponse(<<Candidate(reason, Content(parts))>>, None) :
              reason \in FinishReasons, parts \in PartLists}

----------------------------------------------------------------------------
(* roast_service.py: generate_roast *)

Exception(type, message) == [type |-> type, message |-> message]
NoException == Exception("none", <<>>)
\* line 77
BlockedError == Exception("ValueError", <<"Response", "blocked", "by", "safety", "filters">>)
\* line 173
ParseError ==
    Exception("ValueError",
              <<"Failed", "to", "parse", "roast", "data", "-", "response.parsed", "is",
                "None", "and", "manual", "parsing", "failed">>)
\* line 185
UnexpectedTypeError == Exception("ValueError", <<"Unexpected", "roast_data", "type">>)
\* min(10, confidence) of a value that is no number
ComparisonError == Exception("TypeError", <<"'<'", "not", "supported">>)
\* what client.models.generate_content raises
UpstreamError == Exception("ClientError", <<"request", "rejected">>)

\* one call of client.models.generate_content
Call(by, schema) == [by |-> by, schema |-> schema]

\* lines 190-191 without the lower bound: min(10, confidence)
ClampConfidence_NoFloor(confidence) == PyMin(PyInt(Sec(10)), confidence)

\* lines 190-191: max(0, min(10, confidence))
ClampConfidence(confidence) == PyMax(PyInt(0), PyMin(PyInt(Sec(10)), confidence))

\* a generate_roast call is about to start
RoastCall ==
    /\ pc = "roast_start"
    /\ response = NoResponse
    /\ returned = Missing
    /\ AnimationIdle
    /\ RoastIdle

\* lines 40-54 with a failed first call raising to the caller: no retry
CallWithSchema_NoRetry ==
    /\ pc = "roast_start"
    /\ calls' = Append(calls, Call("generate_roast", TRUE))
    /\ \/ /\ pc' = "roast_raised"
          /\ exception' = UpstreamError
          /\ UNCHANGED response
       \/ /\ \E r \in VisionResponses : response' = r
          /\ pc' = "roast_responded"
          /\ UNCHANGED exception
    /\ UNCHANGED <<returned, animationVars, roast_data, strategy, narration_text,
                   environment, audio_base64, artifacts, pcm_data, wav_data, image, new_size,
                   request, reply, temp_dir, callers>>

\* lines 40-54: the first call, with response_schema; an exception leads to the retry
CallWithSchema ==
    /\ pc = "roast_start"
    /\ calls' = Append(calls, Call("generate_roast", TRUE))
    /\ \/ /\ pc' = "roast_retry"
          /\ UNCHANGED response
       \/ /\ \E r \in VisionResponses : response' = r
          /\ pc' = "roast_responded"
    /\ UNCHANGED <<returned, animationVars, roast_data, strategy, exception, narration_text,
                   environment, audio_base64, artifacts, pcm_data, wav_data, image, new_size,
                   request, reply, temp_dir, callers>>

\* lines 55-71: the retry, without response_schema; its exception is not caught
\* here and leaves generate_roast (lines 196-198 log and re-raise)
RetryWithoutSchema ==
    /\ pc = "roast_retry"
    /\ calls' = Append(calls, Call("generate_roast", FALSE))
    /\ \/ /\ pc' = "roast_raised"
          /\ exception' = UpstreamError
          /\ UNCHANGED response
       \/ /\ \E r \in VisionResponses : response' = r
          /\ pc' = "roast_responded"
          /\ UNCHANGED exception
    /\ UNCHANGED <<returned, animationVars, roast_data, strategy, narration_text,
                   environment, audio_base64, artifacts, pcm_data, wav_data, image, new_size,
                   request, reply, temp_dir, callers>>

\* lines 73-77
CheckCandidates ==
    /\ pc = "roast_responded"
    /\ IF response.candidates = <<>>
       THEN pc' = "roast_raised" /\ exception' = BlockedError
       ELSE pc' = "roast_candidates" /\ UNCHANGED exception
    /\ UNCHANGED <<response, returned, animationVars, calls, roast_data, strategy,
                   narration_text, environment, audio_base64, artifacts, pcm_data, wav_data,
                   image, new_size, request, reply, temp_dir, callers>>

\* lines 98-173: response.parsed, or, when it is None, the manual parse of the
\* first candidate's parts; still None raises the parse failure
ReadParsed ==
    /\ pc = "roast_candidates"
    /\ IF response.parsed # None
       THEN /\ roast_data' = response.parsed
            /\ strategy' = [name |-> "structured", part |-> 0]
            /\ pc' = "roast_parsed"
            /\ UNCHANGED exception
       ELSE \E manual \in {IF response.candidates[1].content.present
                            THEN ManualParse(response.candidates[1].content.parts, 1,
                                             response.candidates[1].finish_reason)
                            ELSE NotParsed} :
                /\ roast_data' = manual.data
                /\ strategy' = [name |-> manual.name, part |-> manual.part]
                /\ IF manual.data = None
                   THEN pc' = "roast_raised" /\ exception' = ParseError
                   ELSE pc' = "roast_parsed" /\ UNCHANGED exception
    /\ UNCHANGED <<response, returned, animationVars, calls, narration_text, environment,
                   audio_base64, artifacts, pcm_data, wav_data, image, new_size, request,
                   reply, temp_dir, callers>>

\* lines 177-194: roast_data as a dict, its confidence_rating clamped, returned
NormalizeAndClamp ==
    /\ pc = "roast_parsed"
    /\ LET as_dict == IF roast_data.t = "object" THEN Dict(roast_data.v) ELSE roast_data
           confidence == Get(as_dict, "confidence_rating", PyInt(Sec(5)))
       IN  IF roast_data.t \notin {"dict", "object"}
           THEN /\ pc' = "roast_raised"
                /\ exception' = UnexpectedTypeError
                /\ UNCHANGED <<roast_data, returned>>
           ELSE IF ~IsNumber(confidence)
           THEN /\ pc' = "roast_raised"
                /\ exception' = ComparisonError
                /\ roast_data' = as_dict
                /\ UNCHANGED returned
           ELSE /\ pc' = "roast_done"
                /\ roast_data' = With(as_dict, "confidence_rating", ClampConfidence(confidence))
                /\ returned' = roast_data'
                /\ UNCHANGED exception
    /\ UNCHANGED <<response, animationVars, calls, strategy, narration_text, environment,
                   audio_base64, artifacts, pcm_data, wav_data, image, new_size, request,
                   reply, temp_dir, callers>>

----------------------------------------------------------------------------
(* image_utils.py: resize_image (main.py lines 81-88 are the same statements) *)
(*                                                                            *)
(* ratio and the two products are IEEE-754 doubles (53-bit mantissa, round to *)
(* nearest, ties to even).  Their mantissas exceed the integers at hand, so   *)
(* the roundings are worked out from remainders, exactly:                     *)
(*   1024 / larger is the double q * 2^(10-K) with q the integer nearest to   *)
(*   2^K / larger, where 2^(K-53) < larger < 2^(K-52); larger * q falls short *)
(*   of 2^K by r = 2^K mod larger when q was rounded down (2r < larger);      *)
(*   side * ratio is then the double nearest to n * (1 - r / 2^K) for         *)
(*   n = 1024 * side / larger, which is the double just below n when n is an  *)
(*   integer and n * r / 2^K exceeds half the gap between n and that double.  *)

\* resize_image's max_dimension=1024
max_dimension == 1024

Image(width, height) == [width |-> width, height |-> height]

\* the largest power of two below x (x > 1)
RECURSIVE PowerOfTwoBelow(_)
PowerOfTwoBelow(x) == IF x <= 2 THEN 1 ELSE 2 * PowerOfTwoBelow((x + 1) \div 2)

\* the largest power of two not above x (x >= 1)
PowerOfTwoUpTo(x) == PowerOfTwoBelow(x + 1)

\* 2^k mod m
RECURSIVE TwoToThe(_, _)
TwoToThe(k, m) == IF k = 0 THEN 1 % m ELSE (2 * TwoToThe(k - 1, m)) % m

RECURSIVE Log2(_)
Log2(x) == IF x <= 1 THEN 0 ELSE 1 + Log2(x \div 2)

\* how far larger * (max_dimension / larger) falls short of max_dimension, as
\* the remainder r (0 when the double max_dimension / larger is exact or was
\* rounded up)
Shortfall(larger) ==
    LET below == PowerOfTwoBelow(larger)
        r == TwoToThe(53 + Log2(below), larger)
    IN  IF larger = 2 * below THEN 0
        ELSE IF 2 * r > larger THEN 0
        ELSE r

\* int(side * ratio) for ratio = max_dimension / larger
Scaled(side, larger) ==
    LET n == (max_dimension * side) \div larger
        exact == (max_dimension * side) % larger = 0
        r == Shortfall(larger)
        below == PowerOfTwoBelow(larger)
        top == PowerOfTwoUpTo(n)
    IN  IF ~exact \/ r = 0 THEN n
        ELSE IF n = top THEN (IF 2 * r > below THEN n - 1 ELSE n)
        ELSE (IF n * r > top * below THEN n - 1 ELSE n)

\* lines 52-57; ratio = min(max_dimension / width, max_dimension / height) is
\* the quotient by the larger side
resize_image(img) ==
    LET larger == IF img.width > img.height THEN img.width ELSE img.height
    IN  IF img.width > max_dimension \/ img.height > max_dimension
        THEN Image(Scaled(img.width, larger), Scaled(img.height, larger))
        ELSE img

\* the images' sides reach this far
MaxSide == 1130

\* sides kept below max_dimension and around it
SmallSides == {1, 2, 500, 512, 768, 1000, 1023, 1024}

\* the picture sizes: every width up to MaxSide with a few heights, both ways
\* round, and three larger pictures
ImageSizes ==
    {Image(w, h) : w \in 1000..MaxSide, h \in SmallSides}
    \cup {Image(h, w) : w \in 1000..MaxSide, h \in SmallSides}
    \cup {Image(w, w) : w \in 1000..MaxSide}
    \cup {Image(w, w - 1) : w \in 1000..MaxSide}
    \cup {Image(2048, 1024), Image(1556, 778), Image(2764, 2073), Image(3000, 1), Image(4096, 4096)}

\* a resize_image call is about to start
ResizeInit ==
    /\ pc = "resize_call"
    /\ response = NoResponse
    /\ returned = Missing
    /\ AnimationIdle
    /\ calls = <<>>
    /\ roast_data = Missing
    /\ strategy = NoStrategy
    /\ exception = NoException
    /\ narration_text = Missing
    /\ environment = Missing
    /\ audio_base64 = Missing
    /\ artifacts = {}
    /\ pcm_data = <<>>
    /\ wav_data = <<>>
    /\ image \in ImageSizes
    /\ new_size = Missing
    /\ request = Missing
    /\ reply = Missing
    /\ temp_dir = Missing
    /\ callers = <<>>

Resize ==
    /\ pc = "resize_call"
    /\ new_size' = resize_image(image)
    /\ pc' = "resize_done"
    /\ UNCHANGED <<response, returned, animationVars, calls, roast_data, strategy, exception,
                   narration_text, environment, audio_base64, artifacts, pcm_data, wav_data,
                   image, request, reply, temp_dir, callers>>

ResizeNext == Resize

ResizeSpec == ResizeInit /\ [][ResizeNext]_vars

----------------------------------------------------------------------------
(* main.py: roast_image; image_utils.py: parse_image_from_request *)

\* the request: its method, request.get_json(silent=True), request.files, and
\* the picture its image data encodes
Request(method, body, files, picture) ==
    [method |-> method, json |-> body, files |-> files, picture |-> picture]

\* os.environ and the file system
Environment(api_key, audio_test, disk) ==
    [GEMINI_API_KEY |-> api_key, ENABLE_AUDIO_TEST |-> audio_test, disk |-> disk]

\* the words of a base64 string: a data-URL prefix, the comma, and payloads
\* that are the base64 of a PNG, the base64 of bytes that are no image, and
\* text that base64.b64decode rejects
ImageStrings ==
    { <<"PNG">>, <<"data:image/png;base64", ",", "PNG">>,
      <<"data:image/png;base64", ",", "PNG", ",", "PNG">>,
      <<"PNG", ",", "TXT">>, <<"TXT">>, <<"BAD">>,
      <<"data:image/png;base64", ",", "BAD">>, <<",">>, <<>> }

JsonBodies ==
    {None, EmptyDict, Str(<<"image">>), List(<<Str(<<"image">>)>>),
     MakeDict({"image", "prompt"}, [prompt |-> Str(<<"go">>)]),
     MakeDict({"image", "prompt"}, [image |-> PyInt(Sec(5))]),
     MakeDict({"image", "prompt"}, [image |-> None])}
    \cup {MakeDict({"image", "prompt"}, [image |-> Str(words)]) : words \in ImageStrings}

FileFields == {Missing, Str(<<"PNG">>), Str(<<"TXT">>)}

Pictures == {Image(640, 480), Image(1122, 500), Image(2048, 1024)}

Requests ==
    {Request(method, body, MakeDict({"image"}, [image |-> file]), Image(640, 480)) :
         method \in {"OPTIONS", "POST", "GET"}, body \in JsonBodies, file \in FileFields}
    \cup {Request("POST", MakeDict({"image", "prompt"}, [image |-> Str(<<"PNG">>)]),
                  MakeDict({"image"}, [image |-> Missing]), picture) : picture \in Pictures}

\* `"image" in x` of a JSON body (membership in a dict's keys, a list's items,
\* a str's substrings)
HasImage(x) ==
    CASE x.t = "dict" -> Has(x, "image")
      [] x.t = "list" -> \E i \in 1..Len(x.v) : x.v[i] = Str(<<"image">>)
      [] x.t = "str" -> \E i \in 1..Len(x.v) : x.v[i] = "image"
      [] OTHER -> FALSE

\* image_base64.split(",")[1] when "," in image_base64: the words between the
\* first comma and the second
AfterComma(words) ==
    LET first == CHOOSE i \in 1..Len(words) :
                     words[i] = "," /\ \A j \in 1..(i - 1) : words[j] # ","
        rest == SubSeq(words, first + 1, Len(words))
    IN  IF \E i \in 1..Len(rest) : rest[i] = ","
        THEN SubSeq(rest, 1, (CHOOSE i \in 1..Len(rest) :
                                  rest[i] = "," /\ \A j \in 1..(i - 1) : rest[j] # ",") - 1)
        ELSE rest

\* what parse_image_from_request does: raise, or return an image or None
ImageResult(raised, img) == [raised |-> raised, image |-> img]

\* Image.open(BytesIO(base64.b64decode(...))): only the base64 of a PNG opens
OpenImage(words, picture) ==
    IF words = <<"PNG">> THEN ImageResult(FALSE, picture) ELSE ImageResult(TRUE, None)

\* image_utils.py lines 21-38 (main.py lines 56-74 are the same statements)
parse_image_from_request(req) ==
    IF Truthy(req.json) /\ HasImage(req.json)
    THEN IF req.json.t # "dict" THEN ImageResult(TRUE, None)
         ELSE LET image_base64 == req.json.v["image"]
              IN  IF image_base64.t # "str" THEN ImageResult(TRUE, None)
                  ELSE IF \E i \in 1..Len(image_base64.v) : image_base64.v[i] = ","
                  THEN OpenImage(AfterComma(image_base64.v), req.picture)
                  ELSE OpenImage(image_base64.v, req.picture)
    ELSE IF Has(req.files, "image")
    THEN OpenImage(req.files.v["image"].v, req.picture)
    ELSE ImageResult(FALSE, None)

\* the handler's answers: jsonify(body), status
Reply(status, body) == [status |-> status, body |-> body]
BodyKeys == {"error", "success", "roast"}

NoImageMessage ==
    <<"No", "image", "provided.", "Send", "as", "base64", "in", "JSON", "or", "as",
      "multipart/form-data">>
BlockedMessage ==
    <<"Response", "was", "blocked", "by", "safety", "filters.", "Try", "a", "different",
      "image.">>

\* Image.open, b64decode, subscripting or slicing raised
DecodeError == Exception("Exception", <<"cannot", "read", "image">>)

\* response.text: the text of the first candidate's first part, None without one
ResponseText(r) ==
    LET content == r.candidates[1].content
    IN  IF content.present /\ content.parts # <<>> /\ HasText(content.parts[1])
        THEN content.parts[1].text
        ELSE None

\* what the vision model answers the handler
HandlerResponses ==
    {VisionResponse(<<>>, None),
     VisionResponse(<<Candidate("STOP", NoContent)>>, None),
     VisionResponse(<<Candidate("STOP", Content(<<Part(Str(<<Char("R")>>))>>))>>, None)}

\* a request is about to be handled
HttpRequest ==
    /\ pc = "http_start"
    /\ response = NoResponse
    /\ returned = Missing
    /\ AnimationIdle
    /\ calls = <<>>
    /\ roast_data = Missing
    /\ strategy = NoStrategy
    /\ exception = NoException
    /\ narration_text = Missing
    /\ environment \in {Environment(key, FALSE, "ok") : key \in BOOLEAN}
    /\ audio_base64 = Missing
    /\ artifacts = {}
    /\ pcm_data = <<>>
    /\ wav_data = <<>>
    /\ image = Missing
    /\ new_size = Missing
    /\ request \in Requests
    /\ reply = Missing
    /\ temp_dir = Missing
    /\ callers = <<>>

\* lines 33-40
Preflight ==
    /\ pc = "http_start"
    /\ request.method = "OPTIONS"
    /\ reply' = Reply(204, Str(<<>>))
    /\ pc' = "http_done"
    /\ UNCHANGED <<response, returned, animationVars, calls, roast_data, strategy, exception,
                   narration_text, environment, audio_base64, artifacts, pcm_data, wav_data,
                   image, new_size, request, temp_dir, callers>>

\* lines 49-53
CheckApiKey ==
    /\ pc = "http_start"
    /\ request.method # "OPTIONS"
    /\ IF ~environment.GEMINI_API_KEY
       THEN /\ reply' = Reply(500, MakeDict(BodyKeys,
                                   [error |-> Str(<<"GEMINI_API_KEY", "not", "configured">>)]))
            /\ pc' = "http_done"
       ELSE /\ pc' = "http_read"
            /\ UNCHANGED reply
    /\ UNCHANGED <<response, returned, animationVars, calls, roast_data, strategy, exception,
                   narration_text, environment, audio_base64, artifacts, pcm_data, wav_data,
                   image, new_size, request, temp_dir, callers>>

\* lines 55-79: the image is read from the request; none is answered with 400
ReadImage ==
    /\ pc = "http_read"
    /\ LET result == parse_image_from_request(request)
       IN  IF result.raised
           THEN /\ exception' = DecodeError
                /\ pc' = "http_except"
                /\ UNCHANGED <<image, reply>>
           ELSE IF result.image = None
           THEN /\ reply' = Reply(400, MakeDict(BodyKeys, [error |-> Str(NoImageMessage)]))
                /\ pc' = "http_done"
                /\ UNCHANGED <<image, exception>>
           ELSE /\ image' = result.image
                /\ pc' = "http_image"
                /\ UNCHANGED <<exception, reply>>
    /\ UNCHANGED <<response, returned, animationVars, calls, roast_data, strategy,
                   narration_text, environment, audio_base64, artifacts, pcm_data, wav_data,
                   new_size, request, temp_dir, callers>>

\* lines 81-136: the image is resized and sent to the vision model
ResizeAndCall ==
    /\ pc = "http_image"
    /\ new_size' = resize_image(image)
    /\ calls' = Append(calls, Call("roast_image", FALSE))
    /\ \/ /\ exception' = UpstreamError
          /\ pc' = "http_except"
          /\ UNCHANGED response
       \/ /\ \E r \in HandlerResponses : response' = r
          /\ pc' = "http_responded"
          /\ UNCHANGED exception
    /\ UNCHANGED <<returned, animationVars, roast_data, strategy, narration_text, environment,
                   audio_base64, artifacts, pcm_data, wav_data, image, request, reply,
                   temp_dir, callers>>

\* Respond with a response without candidates treated as a failure of the server
Respond_BlockedIsServerError ==
    /\ pc = "http_responded"
    /\ IF response.candidates = <<>>
       THEN /\ reply' = Reply(500, MakeDict(BodyKeys,
                                   [error |-> Str(<<"Internal", "error">>),
                                    success |-> Bool(FALSE)]))
            /\ pc' = "http_done"
            /\ UNCHANGED exception
       ELSE IF ResponseText(response) = None
       THEN /\ exception' = Exception("TypeError", <<"'NoneType'", "object", "is", "not",
                                                    "subscriptable">>)
            /\ pc' = "http_except"
            /\ UNCHANGED reply
       ELSE /\ reply' = Reply(200, MakeDict(BodyKeys,
                                   [roast |-> ResponseText(response),
                                    success |-> Bool(TRUE)]))
            /\ pc' = "http_done"
            /\ UNCHANGED exception
    /\ UNCHANGED <<response, returned, animationVars, calls, roast_data, strategy,
                   narration_text, environment, audio_base64, artifacts, pcm_data, wav_data,
                   image, new_size, request, temp_dir, callers>>

\* lines 138-152: no candidates is answered with 400, a roast with 200;
\* roast[:50] raises when response.text is None
Respond ==
    /\ pc = "http_responded"
    /\ IF response.candidates = <<>>
       THEN /\ reply' = Reply(400, MakeDict(BodyKeys,
                                   [error |-> Str(BlockedMessage),
                                    success |-> Bool(FALSE)]))
            /\ pc' = "http_done"
            /\ UNCHANGED exception
       ELSE IF ResponseText(response) = None
       THEN /\ exception' = Exception("TypeError", <<"'NoneType'", "object", "is", "not",
                                                    "subscriptable">>)
            /\ pc' = "http_except"
            /\ UNCHANGED reply
       ELSE /\ reply' = Reply(200, MakeDict(BodyKeys,
                                   [roast |-> ResponseText(response),
                                    success |-> Bool(TRUE)]))
            /\ pc' = "http_done"
            /\ UNCHANGED exception
    /\ UNCHANGED <<response, returned, animationVars, calls, roast_data, strategy,
                   narration_text, environment, audio_base64, artifacts, pcm_data, wav_data,
                   image, new_size, request, temp_dir, callers>>

\* lines 154-159
HandleException ==
    /\ pc = "http_except"
    /\ reply' = Reply(500, MakeDict(BodyKeys,
                          [error |-> Str(exception.message), success |-> Bool(FALSE)]))
    /\ pc' = "http_done"
    /\ UNCHANGED <<response, returned, animationVars, calls, roast_data, strategy, exception,
                   narration_text, environment, audio_base64, artifacts, pcm_data, wav_data,
                   image, new_size, request, temp_dir, callers>>

----------------------------------------------------------------------------
(* The roast back end: a call of generate_roast, or a request to roast_image *)

RoastInit == RoastCall \/ HttpRequest

RoastNext ==
    \/ CallWithSchema
    \/ RetryWithoutSchema
    \/ CheckCandidates
    \/ ReadParsed
    \/ NormalizeAndClamp
    \/ Preflight
    \/ CheckApiKey
    \/ ReadImage
    \/ ResizeAndCall
    \/ Respond
    \/ HandleException

RoastSpec == RoastInit /\ [][RoastNext]_vars

----------------------------------------------------------------------------
(* roast_service.py: build_narration_text.  A str is the sequence of its     *)
(* words and blanks.                                                          *)

\* f"{x}" of a value
Format(x) ==
    CASE x.t = "str" -> x.v
      [] x.t = "null" -> <<"None">>
      [] OTHER -> <<"?">>

\* " ".join(lines)
RECURSIVE Join(_)
Join(lines) ==
    IF lines = <<>> THEN <<>>
    ELSE IF Len(lines) = 1 THEN lines[1].v
    ELSE lines[1].v \o <<" ">> \o Join(Tail(lines))

\* ". " and " And here's the best part: "
Stop == <<".", " ">>
BestPart == <<" ", "And", " ", "here's", " ", "the", " ", "best", " ", "part:", " ">>

\* " ".join raises TypeError: roast_lines is truthy and no list of str
JoinRaises(roast_lines) ==
    /\ Truthy(roast_lines)
    /\ \/ roast_lines.t # "list"
       \/ \E i \in 1..Len(roast_lines.v) : roast_lines.v[i].t # "str"

\* build_narration_text with the best-part sentence added whatever one_liner is
build_narration_text_AlwaysBestPart(d) ==
    Str(Format(Get(d, "overall_vibe", Str(<<>>))) \o Stop
        \o (IF Truthy(Get(d, "roast_lines", List(<<>>)))
            THEN Join(Get(d, "roast_lines", List(<<>>)).v) ELSE <<>>)
        \o BestPart \o Format(Get(d, "one_liner", Str(<<>>))))

\* lines 211-221
build_narration_text(d) ==
    Str(Format(Get(d, "overall_vibe", Str(<<>>))) \o Stop
        \o (IF Truthy(Get(d, "roast_lines", List(<<>>)))
            THEN Join(Get(d, "roast_lines", List(<<>>)).v) ELSE <<>>)
        \o (IF Truthy(Get(d, "one_liner", Str(<<>>)))
            THEN BestPart \o Format(Get(d, "one_liner", Str(<<>>))) ELSE <<>>))

\* the roasts narrated: fields present, empty and absent, lines with blanks
\* inside, and roast_lines that is no list of str
NarrationVibes == {Missing, Str(<<>>), Str(<<"V">>), Str(<<"Big", " ", "mood">>)}
NarrationLines ==
    {Missing, None, List(<<>>), List(<<Str(<<"a">>)>>),
     List(<<Str(<<"a">>), Str(<<"b">>)>>),
     List(<<Str(<<"a", " ", "c">>), Str(<<>>), Str(<<"b">>)>>),
     List(<<Str(<<"a">>), PyInt(Sec(3))>>), PyInt(Sec(3))}
NarrationOneLiners == {Missing, None, Str(<<>>), Str(<<"L">>), Str(<<"Last", " ", "word">>)}
NarrationInputs ==
    {MakeDict(RoastKeys, [overall_vibe |-> v, roast_lines |-> l, one_liner |-> o]) :
         v \in NarrationVibes, l \in NarrationLines, o \in NarrationOneLiners}

NarrationInit ==
    /\ pc = "narration_call"
    /\ response = NoResponse
    /\ returned = Missing
    /\ AnimationIdle
    /\ calls = <<>>
    /\ roast_data \in NarrationInputs
    /\ strategy = NoStrategy
    /\ exception = NoException
    /\ narration_text = Missing
    /\ environment = Missing
    /\ audio_base64 = Missing
    /\ artifacts = {}
    /\ pcm_data = <<>>
    /\ wav_data = <<>>
    /\ image = Missing
    /\ new_size = Missing
    /\ request = Missing
    /\ reply = Missing
    /\ temp_dir = Missing
    /\ callers = <<>>

BuildNarration ==
    /\ pc = "narration_call"
    /\ IF JoinRaises(Get(roast_data, "roast_lines", List(<<>>)))
       THEN /\ pc' = "narration_raised"
            /\ exception' = Exception("TypeError", <<"can", "only", "join", "an", "iterable">>)
            /\ UNCHANGED narration_text
       ELSE /\ pc' = "narration_done"
            /\ narration_text' = build_narration_text(roast_data)
            /\ UNCHANGED exception
    /\ UNCHANGED <<response, returned, animationVars, calls, roast_data, strategy, environment,
                   audio_base64, artifacts, pcm_data, wav_data, image, new_size, request, reply,
                   temp_dir, callers>>

NarrationNext == BuildNarration

NarrationSpec == NarrationInit /\ [][NarrationNext]_vars

----------------------------------------------------------------------------
(* tts_service.py: generate_tts_audio *)

\* bytes, and a part's inline_data: an object with the bytes, or with none
Bytes(octets) == [t |-> "bytes", v |-> octets]
Blob(data) == [t |-> "blob", v |-> data]
AudioPart(inline_data) == [inline_data |-> inline_data]
TtsResponse(candidates) == [kind |-> "tts", candidates |-> candidates]

\* the base64 alphabet
B64Alphabet ==
    <<"A", "B", "C", "D", "E", "F", "G", "H", "I", "J", "K", "L", "M", "N", "O", "P",
      "Q", "R", "S", "T", "U", "V", "W", "X", "Y", "Z", "a", "b", "c", "d", "e", "f",
      "g", "h", "i", "j", "k", "l", "m", "n", "o", "p", "q", "r", "s", "t", "u", "v",
      "w", "x", "y", "z", "0", "1", "2", "3", "4", "5", "6", "7", "8", "9", "+", "/">>

\* octet i of octets, 0 beyond its end
OctetAt(octets, i) == IF i <= Len(octets) THEN octets[i] ELSE 0

\* the 24 bits of the group of three octets that starts after octet 3 * g
Group(octets, g) ==
    OctetAt(octets, 3 * g + 1) * 65536 + OctetAt(octets, 3 * g + 2) * 256
        + OctetAt(octets, 3 * g + 3)

\* character k (0..3) of group g: six bits of the group, or the padding where
\* the octets have ended
B64Char(octets, g, k) ==
    IF 3 * g + k > Len(octets) THEN "="
    ELSE B64Alphabet[((Group(octets, g) \div (2 ^ (6 * (3 - k)))) % 64) + 1]

\* base64.b64encode(octets).decode("utf-8")
b64encode(octets) ==
    [i \in 1..(4 * ((Len(octets) + 2) \div 3)) |-> B64Char(octets, (i - 1) \div 4, (i - 1) % 4)]

\* hasattr(part, "inline_data") and part.inline_data
HasInlineData(part) == part.inline_data.t = "blob"

\* candidate.content and candidate.content.parts
HasParts(candidate) == candidate.content.present /\ candidate.content.parts # <<>>

\* lines 94-100: the first part with inline data, candidates and parts in
\* order: <<candidate, part>>, <<0, 0>> when there is none
RECURSIVE FirstInlinePart(_, _, _)
FirstInlinePart(candidates, c, p) ==
    IF c > Len(candidates) THEN <<0, 0>>
    ELSE IF ~HasParts(candidates[c]) \/ p > Len(candidates[c].content.parts)
    THEN FirstInlinePart(candidates, c + 1, 1)
    ELSE IF HasInlineData(candidates[c].content.parts[p]) THEN <<c, p>>
    ELSE FirstInlinePart(candidates, c, p + 1)

TtsResult(raised, audio) == [raised |-> raised, audio |-> audio]

\* _extract_audio_from_response (lines 81-102): None without candidates or
\* inline data; b64encode raises TypeError for data that is None
ExtractAudio(r) ==
    IF FirstInlinePart(r.candidates, 1, 1) = <<0, 0>> THEN TtsResult(FALSE, None)
    ELSE IF r.candidates[FirstInlinePart(r.candidates, 1, 1)[1]].content.parts[
                FirstInlinePart(r.candidates, 1, 1)[2]].inline_data.v = None
    THEN TtsResult(TRUE, None)
    ELSE TtsResult(FALSE,
             Str(b64encode(r.candidates[FirstInlinePart(r.candidates, 1, 1)[1]].content.parts[
                               FirstInlinePart(r.candidates, 1, 1)[2]].inline_data.v.v)))

\* what the speech model answers
MaxAudioParts == 2
MaxCandidates == 2
OctetPool == {<<>>, <<77>>, <<77, 97>>, <<77, 97, 110>>, <<0, 255, 16, 128>>}
AudioParts ==
    {AudioPart(Missing), AudioPart(None), AudioPart(Blob(None))}
    \cup {AudioPart(Blob(Bytes(octets))) : octets \in OctetPool}
SeqsUpTo(S, n) == UNION {[1..k -> S] : k \in 0..n}
AudioCandidates ==
    {Candidate("STOP", NoContent)}
    \cup {Candidate("STOP", Content(parts)) : parts \in SeqsUpTo(AudioParts, MaxAudioParts)}
LaterCandidates ==
    {Candidate("STOP", NoContent),
     Candidate("STOP", Content(<<AudioPart(None)>>)),
     Candidate("STOP", Content(<<AudioPart(Blob(Bytes(<<77, 97>>)))>>)),
     Candidate("STOP", Content(<<AudioPart(Missing), AudioPart(Blob(Bytes(<<77>>)))>>))}
TtsResponses ==
    {TtsResponse(<<>>)}
    \cup {TtsResponse(<<first>> \o rest) :
              first \in AudioCandidates, rest \in SeqsUpTo(LaterCandidates, MaxCandidates - 1)}

\* the files of the test mode
TestArtifacts == {"audio_base64.txt", "roast_audio.wav"}

TtsInit ==
    /\ pc = "tts_start"
    /\ response = NoResponse
    /\ returned = Missing
    /\ AnimationIdle
    /\ calls = <<>>
    /\ roast_data = Missing
    /\ strategy = NoStrategy
    /\ exception = NoException
    /\ narration_text = Str(<<"V", ".", " ", "a">>)
    /\ environment \in {Environment(TRUE, FALSE, "ok"), Environment(TRUE, TRUE, "ok"),
                        Environment(TRUE, TRUE, "fails")}
    /\ audio_base64 = Missing
    /\ artifacts = {}
    /\ pcm_data = <<>>
    /\ wav_data = <<>>
    /\ image = Missing
    /\ new_size = Missing
    /\ request = Missing
    /\ reply = Missing
    /\ temp_dir = Missing
    /\ callers = <<>>

\* lines 47-60: the call of the speech model
CallTts ==
    /\ pc = "tts_start"
    /\ calls' = Append(calls, Call("generate_tts_audio", FALSE))
    /\ \/ /\ exception' = UpstreamError
          /\ pc' = "tts_except"
          /\ UNCHANGED response
       \/ /\ \E r \in TtsResponses : response' = r
          /\ pc' = "tts_responded"
          /\ UNCHANGED exception
    /\ UNCHANGED <<returned, animationVars, roast_data, strategy, narration_text, environment,
                   audio_base64, artifacts, pcm_data, wav_data, image, new_size, request, reply,
                   temp_dir, callers>>

\* lines 63-72: the audio is extracted; the test files are due when there is
\* audio and ENABLE_AUDIO_TEST is set
Extract ==
    /\ pc = "tts_responded"
    /\ IF ExtractAudio(response).raised
       THEN /\ exception' = Exception("TypeError", <<"a", "bytes-like", "object", "is",
                                                    "required">>)
            /\ pc' = "tts_except"
            /\ UNCHANGED audio_base64
       ELSE /\ audio_base64' = ExtractAudio(response).audio
            /\ pc' = IF Truthy(ExtractAudio(response).audio) /\ environment.ENABLE_AUDIO_TEST
                     THEN "tts_save" ELSE "tts_return"
            /\ UNCHANGED exception
    /\ UNCHANGED <<response, returned, animationVars, calls, roast_data, strategy,
                   narration_text, environment, artifacts, pcm_data, wav_data, image, new_size,
                   request, reply, temp_dir, callers>>

\* _save_test_audio_files with its failure leaving the function
SaveTestAudioFiles_Unguarded ==
    /\ pc = "tts_save"
    /\ IF environment.disk = "ok"
       THEN /\ artifacts' = TestArtifacts
            /\ pc' = "tts_return"
            /\ UNCHANGED exception
       ELSE /\ artifacts' \in {{}, {"audio_base64.txt"}}
            /\ exception' = Exception("OSError", <<"Read-only", "file", "system">>)
            /\ pc' = "tts_except"
    /\ UNCHANGED <<response, returned, animationVars, calls, roast_data, strategy,
                   narration_text, environment, audio_base64, pcm_data, wav_data, image,
                   new_size, request, reply, temp_dir, callers>>

\* _save_test_audio_files (lines 105-145): both files are written, or, when
\* writing or decoding fails, none or the first only; the failure is logged
SaveTestAudioFiles ==
    /\ pc = "tts_save"
    /\ IF environment.disk = "ok"
       THEN /\ artifacts' = TestArtifacts
            /\ pc' = "tts_return"
            /\ UNCHANGED exception
       ELSE /\ artifacts' \in {{}, {"audio_base64.txt"}}
            /\ pc' = "tts_return"
            /\ UNCHANGED exception
    /\ UNCHANGED <<response, returned, animationVars, calls, roast_data, strategy,
                   narration_text, environment, audio_base64, pcm_data, wav_data, image,
                   new_size, request, reply, temp_dir, callers>>

\* line 74
ReturnAudio ==
    /\ pc = "tts_return"
    /\ returned' = audio_base64
    /\ pc' = "tts_done"
    /\ UNCHANGED <<response, animationVars, calls, roast_data, strategy, exception,
                   narration_text, environment, audio_base64, artifacts, pcm_data, wav_data,
                   image, new_size, request, reply, temp_dir, callers>>

\* lines 76-78
ExceptTts ==
    /\ pc = "tts_except"
    /\ returned' = None
    /\ pc' = "tts_done"
    /\ UNCHANGED <<response, animationVars, calls, roast_data, strategy, exception,
                   narration_text, environment, audio_base64, artifacts, pcm_data, wav_data,
                   image, new_size, request, reply, temp_dir, callers>>

TtsNext ==
    \/ CallTts
    \/ Extract
    \/ SaveTestAudioFiles
    \/ ReturnAudio
    \/ ExceptTts

TtsSpec == TtsInit /\ [][TtsNext]_vars

----------------------------------------------------------------------------
(* decode_audio.py *)

\* create_wav_header's defaults
sample_rate == 24000
num_channels == 1
bits_per_sample == 16

\* struct.pack("<I", n) and struct.pack("<H", n): n in 4 and in 2 octets, the
\* least significant first
LE32(n) == <<n % 256, (n \div 256) % 256, (n \div 65536) % 256, (n \div 16777216) % 256>>
LE16(n) == <<n % 256, (n \div 256) % 256>>

\* b"RIFF", b"WAVE", b"fmt ", b"data"
RIFF == <<82, 73, 70, 70>>
WAVE == <<87, 65, 86, 69>>
FMT == <<102, 109, 116, 32>>
DATA == <<100, 97, 116, 97>>

\* create_wav_header with the octets of data_size in the opposite order
create_wav_header_BigEndian(data_size) ==
    RIFF \o LE32(36 + data_size) \o WAVE
    \o FMT \o LE32(16) \o LE16(1) \o LE16(num_channels) \o LE32(sample_rate)
    \o LE32((sample_rate * num_channels * bits_per_sample) \div 8)
    \o LE16((num_channels * bits_per_sample) \div 8) \o LE16(bits_per_sample)
    \o DATA \o <<LE32(data_size)[4], LE32(data_size)[3], LE32(data_size)[2],
                 LE32(data_size)[1]>>

\* lines 10-20
create_wav_header(data_size) ==
    RIFF \o LE32(36 + data_size) \o WAVE
    \o FMT \o LE32(16) \o LE16(1) \o LE16(num_channels) \o LE32(sample_rate)
    \o LE32((sample_rate * num_channels * bits_per_sample) \div 8)
    \o LE16((num_channels * bits_per_sample) \div 8) \o LE16(bits_per_sample)
    \o DATA \o LE32(data_size)

\* the six bits a base64 character stands for (none for the padding)
Sextet(ch) == IF ch = "=" THEN 0 ELSE (CHOOSE i \in 1..64 : B64Alphabet[i] = ch) - 1

\* the padding characters at the end of text
Padding(chars) ==
    IF chars # <<>> /\ chars[Len(chars)] = "="
    THEN (IF Len(chars) > 1 /\ chars[Len(chars) - 1] = "=" THEN 2 ELSE 1)
    ELSE 0

\* the 24 bits of the group of four characters that starts after character 4 * g
Quad(chars, g) ==
    Sextet(chars[4 * g + 1]) * 262144 + Sextet(chars[4 * g + 2]) * 4096
        + Sextet(chars[4 * g + 3]) * 64 + Sextet(chars[4 * g + 4])

\* base64.b64decode of a text of base64 characters: binascii.Error when its
\* length is no multiple of four
b64decodeRaises(chars) == Len(chars) % 4 # 0
b64decode(chars) ==
    [j \in 1..(3 * (Len(chars) \div 4) - Padding(chars)) |->
         (Quad(chars, (j - 1) \div 3) \div (2 ^ (8 * (2 - ((j - 1) % 3))))) % 256]

\* the PCM decoded: up to MaxPcm octets, in two patterns
MaxPcm == 260
Pcm(n, k) == [i \in 1..n |-> (i * k + (n \div 2)) % 256]
PcmInputs == {Pcm(n, k) : n \in 0..MaxPcm, k \in {7, 255}}

\* audio_base64.txt: the base64 of PCM, a text that is no base64, or no file
Base64Files ==
    {Str(b64encode(pcm)) : pcm \in PcmInputs} \cup {Str(<<"T", "Q", "=">>), Missing}

WavInit ==
    /\ pc = "decode_start"
    /\ response = NoResponse
    /\ returned = Missing
    /\ AnimationIdle
    /\ calls = <<>>
    /\ roast_data = Missing
    /\ strategy = NoStrategy
    /\ exception = NoException
    /\ narration_text = Missing
    /\ environment = Missing
    /\ audio_base64 \in Base64Files
    /\ artifacts = IF audio_base64 = Missing THEN {} ELSE {"audio_base64.txt"}
    /\ pcm_data = <<>>
    /\ wav_data = <<>>
    /\ image = Missing
    /\ new_size = Missing
    /\ request = Missing
    /\ reply = Missing
    /\ temp_dir = Missing
    /\ callers = <<>>

\* decode_audio (lines 23-58): False without the file or when b64decode
\* raises; else the header and the PCM are written to the WAV file
DecodeAudio ==
    /\ pc = "decode_start"
    /\ pc' = "decode_done"
    /\ IF "audio_base64.txt" \notin artifacts
       THEN /\ returned' = Bool(FALSE)
            /\ UNCHANGED <<pcm_data, wav_data, artifacts>>
       ELSE IF b64decodeRaises(audio_base64.v)
       THEN /\ returned' = Bool(FALSE)
            /\ UNCHANGED <<pcm_data, wav_data, artifacts>>
       ELSE /\ pcm_data' = b64decode(audio_base64.v)
            /\ wav_data' = create_wav_header(Len(pcm_data')) \o pcm_data'
            /\ artifacts' = artifacts \cup {"roast_audio.wav"}
            /\ returned' = Bool(TRUE)
    /\ UNCHANGED <<response, animationVars, calls, roast_data, strategy, exception,
                   narration_text, environment, audio_base64, image, new_size, request, reply,
                   temp_dir, callers>>

WavNext == DecodeAudio

WavSpec == WavInit /\ [][WavNext]_vars

----------------------------------------------------------------------------
(* tts_service.py: calls of generate_tts_audio in flight at the same time, as *)
(* requests served by threads or processes that share functions/temp.  Each  *)
(* call has its own locals; the two files of the test mode have fixed paths   *)
(* (lines 117-118) and are shared.  A step is one access to a file.           *)

\* the calls in flight
MaxCallers == 2
Callers == 1..MaxCallers

\* what the speech model answers a call: one part with audio
CallerResponses ==
    {TtsResponse(<<Candidate("STOP", Content(<<AudioPart(Blob(Bytes(octets)))>>))>>) :
         octets \in {<<77>>, <<77, 97>>, <<0, 255, 16, 128>>}}

\* functions/temp without its two files
NoFiles == [file \in TestArtifacts |-> Missing]

\* the locals of a call: its position, response and audio_base64, the
\* base64_audio its decode_audio subprocess read, what the call has written to
\* each file, and its return value
Caller(position, r, audio, read, written, result) ==
    [pc |-> position, response |-> r, audio_base64 |-> audio, base64_audio |-> read,
     written |-> written, returned |-> result]

ConcurrentInit ==
    /\ pc = "concurrent"
    /\ response = NoResponse
    /\ returned = Missing
    /\ AnimationIdle
    /\ calls = <<>>
    /\ roast_data = Missing
    /\ strategy = NoStrategy
    /\ exception = NoException
    /\ narration_text = Missing
    /\ environment \in {Environment(TRUE, test, "ok") : test \in BOOLEAN}
    /\ audio_base64 = Missing
    /\ artifacts = {}
    /\ pcm_data = <<>>
    /\ wav_data = <<>>
    /\ image = Missing
    /\ new_size = Missing
    /\ request = Missing
    /\ reply = Missing
    /\ temp_dir = NoFiles
    /\ callers = [i \in Callers |->
                      Caller("tts_start", NoResponse, Missing, Missing, NoFiles, Missing)]

\* the variables a concurrent call leaves alone
singleCallVars ==
    <<pc, response, returned, animationVars, calls, roast_data, strategy, exception,
      narration_text, environment, audio_base64, artifacts, pcm_data, wav_data, image,
      new_size, request, reply>>

\* tts_service.py lines 47-60: the speech model answers call i
CallerCalls(i) ==
    /\ callers[i].pc = "tts_start"
    /\ \E r \in CallerResponses :
           callers' = [callers EXCEPT ![i].response = r, ![i].pc = "tts_responded"]
    /\ UNCHANGED <<temp_dir, singleCallVars>>

\* lines 63-72: the audio is extracted; the test files are due when there is
\* audio and ENABLE_AUDIO_TEST is set
CallerExtracts(i) ==
    /\ callers[i].pc = "tts_responded"
    /\ callers' = [callers EXCEPT
                       ![i].audio_base64 = ExtractAudio(callers[i].response).audio,
                       ![i].pc = IF Truthy(ExtractAudio(callers[i].response).audio)
                                    /\ environment.ENABLE_AUDIO_TEST
                                 THEN "save_base64" ELSE "tts_return"]
    /\ UNCHANGED <<temp_dir, singleCallVars>>

\* lines 123-125: audio_base64 is written to temp/audio_base64.txt
CallerSavesBase64(i) ==
    /\ callers[i].pc = "save_base64"
    /\ temp_dir' = [temp_dir EXCEPT !["audio_base64.txt"] = callers[i].audio_base64]
    /\ callers' = [callers EXCEPT
                       ![i].written["audio_base64.txt"] = callers[i].audio_base64,
                       ![i].pc = "decode_read"]
    /\ UNCHANGED singleCallVars

\* lines 131-136 and decode_audio.py lines 27-34: the subprocess of call i
\* reads temp/audio_base64.txt
CallerDecodeReads(i) ==
    /\ callers[i].pc = "decode_read"
    /\ callers' = [callers EXCEPT ![i].base64_audio = temp_dir["audio_base64.txt"],
                                  ![i].pc = "decode_write"]
    /\ UNCHANGED <<temp_dir, singleCallVars>>

\* decode_audio.py lines 39-54: the subprocess of call i decodes what it read
\* and writes the header and the PCM to temp/roast_audio.wav
CallerDecodeWrites(i) ==
    /\ callers[i].pc = "decode_write"
    /\ LET pcm == b64decode(callers[i].base64_audio.v)
           wav == Bytes(create_wav_header(Len(pcm)) \o pcm)
       IN  /\ temp_dir' = [temp_dir EXCEPT !["roast_audio.wav"] = wav]
           /\ callers' = [callers EXCEPT ![i].written["roast_audio.wav"] = wav,
                                         ![i].pc = "tts_return"]
    /\ UNCHANGED singleCallVars

\* tts_service.py line 74
CallerReturns(i) ==
    /\ callers[i].pc = "tts_return"
    /\ callers' = [callers EXCEPT ![i].returned = callers[i].audio_base64,
                                  ![i].pc = "tts_done"]
    /\ UNCHANGED <<temp_dir, singleCallVars>>

ConcurrentNext ==
    \E i \in Callers :
        \/ CallerCalls(i)
        \/ CallerExtracts(i)
        \/ CallerSavesBase64(i)
        \/ CallerDecodeReads(i)
        \/ CallerDecodeWrites(i)
        \/ CallerReturns(i)

ConcurrentSpec == ConcurrentInit /\ [][ConcurrentNext]_vars

----------------------------------------------------------------------------
(* Properties *)

TimelineOf(script) == script.v["timeline"].v
MetadataOf(script) == script.v["metadata"]

IsAnimationScript(script) ==
    /\ script.t = "dict"
    /\ Has(script, "metadata")
    /\ Has(script, "timeline")
    /\ script.v["timeline"].t = "list"

HasIssue(outcome, msg) == \E i \in 1..Len(outcome.issues) : outcome.issues[i].msg = msg

Fallback == generate_default_animation_script(duration_seconds, transcript)

\* the call is at a line of generate_animation_script from which it goes on:
\* the model call, the check of its result, the check of the validator's
\* verdict, or the exception handler
CanStep ==
    \/ pc = "start"
    \/ pc = "called" /\ (animation_script = None \/ animation_script # None)
    \/ pc = "validated"
    \/ pc = "except"

GenerationFailed ==
    \/ response.kind # "text"
    \/ parse_animation_response(response.text).error

\* C2: the call returns the deterministic fallback script (metadata.fallback true)
\* whenever the model call raises, the response has no candidate, the text does
\* not parse as a JSON object, or validation does not report ok = true; it
\* returns the sanitized generated script only when validation reported
\* ok = true, and a script that was discarded is not what is returned.
C2_FallbackOrSanitized ==
    pc = "done" =>
        IF GenerationFailed \/ validation.raised \/ ~validation.is_valid
        THEN /\ returned = Fallback
             /\ MetadataOf(returned).v["fallback"] = Bool(TRUE)
             /\ animation_script # None =>
                    returned # sanitize_animation_script(animation_script)
        ELSE /\ validation.is_valid
             /\ returned = sanitize_animation_script(animation_script)

\* a generated script that parsed was rejected by the validator and discarded
C2_Witness ==
    /\ pc = "done"
    /\ response.kind = "text"
    /\ animation_script # None
    /\ ~validation.raised
    /\ ~validation.is_valid
    /\ returned = Fallback

\* the timeline [{0,5,idle,neutral,0.5},{5,10,run,laugh,0.9}] with metadata of
\* duration 10 and a non-empty transcript
ExampleScript ==
    MakeDict(ScriptKeys,
        [metadata |-> BaseMetadata(Sec(10)),
         timeline |-> List(<<
             MakeDict(FrameKeys,
                 [startTime |-> PyInt(0), endTime |-> PyInt(Sec(5)),
                  animation |-> Str(<<"idle">>), expression |-> Str(<<"neutral">>),
                  intensity |-> PyFloat(50)]),
             MakeDict(FrameKeys,
                 [startTime |-> PyInt(Sec(5)), endTime |-> PyInt(Sec(10)),
                  animation |-> Str(<<"run">>), expression |-> Str(<<"laugh">>),
                  intensity |-> PyFloat(90)]) >>)])

ExampleValidated(expected) ==
    /\ pc = "validated"
    /\ animation_script = ExampleScript
    /\ duration_seconds = PyInt(Sec(expected))

\* C3 as stated: validate_animation_script accepts the two-keyframe example
\* timeline with expectedDuration = 10: ok = true and no issue.
C3_ExampleAccepted ==
    ExampleValidated(10) => validation.is_valid /\ validation.issues = <<>>

\* C3, amended: validate_animation_script rejects the two-keyframe example
\* timeline with expectedDuration = 10: it returns ok = false, and the issue
\* list holds exactly one issue, that the timeline should have at least 3
\* keyframes.
C3_ExampleTooShort ==
    ExampleValidated(10) =>
        /\ ~validation.is_valid
        /\ validation.issues = <<Issue("Timeline should have at least 3 keyframes")>>

C3_Witness == ExampleValidated(10)

PositiveNumber(x) == IsNumber(x) /\ ~IsNaN(x) /\ NumVal(x) > 0
Distance(a, b) == IF a < b THEN b - a ELSE a - b

\* the validator returned, and the script's metadata.duration is a positive number
PositiveDurationValidated ==
    /\ pc = "validated"
    /\ animation_script.t = "dict"
    /\ Get(animation_script, "metadata", None).t = "dict"
    /\ PositiveNumber(Get(MetadataOf(animation_script), "duration", None))

\* C4: for a script whose metadata.duration is a positive number, the validator
\* records a duration-mismatch issue, and so returns ok = false, exactly when
\* |metadata.duration - expectedDuration| > 2; the example timeline with
\* metadata.duration = 10 checked against expectedDuration = 20 fails with a
\* duration-mismatch issue.
C4_DurationTolerance ==
    /\ PositiveDurationValidated =>
           /\ HasIssue(validation, "Duration mismatch")
                  <=> Distance(NumVal(MetadataOf(animation_script).v["duration"]),
                               NumVal(duration_seconds)) > Sec(2)
           /\ HasIssue(validation, "Duration mismatch") => ~validation.is_valid
    /\ ExampleValidated(20) =>
           HasIssue(validation, "Duration mismatch") /\ ~validation.is_valid

\* a duration exactly 2 seconds off is accepted
C4_Witness ==
    /\ PositiveDurationValidated
    /\ Distance(NumVal(MetadataOf(animation_script).v["duration"]),
                NumVal(duration_seconds)) = Sec(2)
    /\ ~HasIssue(validation, "Duration mismatch")

FrameIs(frame, start, end, animation, expression, level) ==
    /\ IsNumber(frame.v["startTime"]) /\ ~IsNaN(frame.v["startTime"])
    /\ NumVal(frame.v["startTime"]) = start
    /\ IsNumber(frame.v["endTime"]) /\ ~IsNaN(frame.v["endTime"])
    /\ NumVal(frame.v["endTime"]) = end
    /\ frame.v["animation"] = Str(<<animation>>)
    /\ frame.v["expression"] = Str(<<expression>>)
    /\ frame.v["intensity"] = PyFloat(level)

\* C5: generate_default_animation_script(d, transcript) produces exactly 4
\* keyframes over [0, d/4], [d/4, d/2], [d/2, 3d/4], [3d/4, d], each startTime
\* equal to the previous endTime, carrying idle/neutral/0.5, sitTalk/smile/0.7,
\* spellcast/laugh/0.9, relax/smile/0.6, with metadata.duration = d and
\* metadata.fallback = true; for d = 12 the boundaries are 0, 3, 6, 9, 12.
C5_FallbackShape ==
    pc \in {"fallback_done", "fallback_checked"} =>
        LET d == NumVal(duration_seconds)
            frames == TimelineOf(returned)
        IN  /\ IsAnimationScript(returned)
            /\ Len(frames) = 4
            /\ 4 * NumVal(frames[1].v["endTime"]) = d
            /\ 2 * NumVal(frames[2].v["endTime"]) = d
            /\ 4 * NumVal(frames[3].v["endTime"]) = 3 * d
            /\ FrameIs(frames[1], 0, NumVal(frames[1].v["endTime"]),
                       "idle", "neutral", 50)
            /\ FrameIs(frames[2], NumVal(frames[1].v["endTime"]),
                       NumVal(frames[2].v["endTime"]), "sitTalk", "smile", 70)
            /\ FrameIs(frames[3], NumVal(frames[2].v["endTime"]),
                       NumVal(frames[3].v["endTime"]), "spellcast", "laugh", 90)
            /\ FrameIs(frames[4], NumVal(frames[3].v["endTime"]), d,
                       "relax", "smile", 60)
            /\ \A i \in 2..4 : frames[i].v["startTime"] = frames[i - 1].v["endTime"]
            /\ MetadataOf(returned).v["duration"] = duration_seconds
            /\ MetadataOf(returned).v["fallback"] = Bool(TRUE)
            /\ duration_seconds = PyInt(Sec(12)) =>
                   /\ NumVal(frames[1].v["endTime"]) = Sec(3)
                   /\ NumVal(frames[2].v["endTime"]) = Sec(6)
                   /\ NumVal(frames[3].v["endTime"]) = Sec(9)
                   /\ NumVal(frames[4].v["endTime"]) = Sec(12)

\* the fallback script for 12 seconds, with its third keyframe over [6, 9]
C5_Witness ==
    /\ pc = "fallback_done"
    /\ duration_seconds = PyInt(Sec(12))
    /\ NumVal(TimelineOf(returned)[3].v["startTime"]) = Sec(6)
    /\ NumVal(TimelineOf(returned)[3].v["endTime"]) = Sec(9)

\* C6: the fallback script is always structurally valid: for every duration
\* d > 0 and every transcript, validate_animation_script(
\* generate_default_animation_script(d, transcript), d) returns ok = true with an
\* empty issue list.
C6_FallbackAlwaysValid ==
    (pc = "fallback_checked" /\ NumVal(duration_seconds) > 0) =>
        /\ ~validation.raised
        /\ validation.is_valid
        /\ validation.issues = <<>>

\* C7: every keyframe of every script generate_animation_script returns names
\* an animation that is a key of the animation catalog and an expression that
\* is a key of the expression catalog, whatever JSON the model returned.
C7_CatalogVocabulary ==
    pc = "done" =>
        \A i \in 1..Len(TimelineOf(returned)) :
            /\ TimelineOf(returned)[i].v["animation"] \in AVAILABLE_ANIMATIONS
            /\ TimelineOf(returned)[i].v["expression"] \in AVAILABLE_EXPRESSIONS

DictEntries(frames) == SelectSeq(frames, LAMBDA entry : entry.t = "dict")

PresentKeys(d) == {k \in DOMAIN d.v : d.v[k] # Missing}

\* sanitize_animation_script was called on a dict whose timeline is a list (or absent)
SanitizedScript ==
    /\ pc = "sanitize_done"
    /\ animation_script.t = "dict"
    /\ Get(animation_script, "timeline", List(<<>>)).t = "list"

\* C8: sanitize_animation_script is idempotent: for every script that is an
\* object with a list timeline, sanitizing the sanitized script gives the
\* sanitized script again, field for field and type for type.
C8_SanitizeIdempotent ==
    SanitizedScript =>
        /\ returned # None
        /\ sanitize_animation_script(returned) = returned

\* a script with keyframes that sanitizing changed
C8_Witness ==
    /\ SanitizedScript
    /\ returned # None
    /\ returned # animation_script
    /\ Len(TimelineOf(returned)) >= 2

\* C9: for an object with a list timeline, the sanitized timeline holds exactly
\* the object entries of the input timeline in their order, each with all six
\* fields and no other: a field that is present is kept, a missing startTime or
\* endTime becomes 0, a missing animation idle, a missing expression neutral, a
\* missing notes the empty string, and intensity is a number in [0,1], 0.5 when
\* missing or not an int or float; metadata is passed through unchanged.
C9_SanitizeShape ==
    SanitizedScript =>
        LET entries == DictEntries(Get(animation_script, "timeline", List(<<>>)).v)
            kept(i, key, default) ==
                TimelineOf(returned)[i].v[key] =
                    (IF Has(entries[i], key) THEN entries[i].v[key] ELSE default)
        IN  /\ IsAnimationScript(returned)
            /\ Len(TimelineOf(returned)) = Len(entries)
            /\ \A i \in 1..Len(entries) :
                   LET level == TimelineOf(returned)[i].v["intensity"]
                   IN  /\ TimelineOf(returned)[i].t = "dict"
                       /\ PresentKeys(TimelineOf(returned)[i]) =
                              {"startTime", "endTime", "animation", "expression",
                               "intensity", "notes"}
                       /\ kept(i, "startTime", PyInt(0))
                       /\ kept(i, "endTime", PyInt(0))
                       /\ kept(i, "animation", Str(<<"idle">>))
                       /\ kept(i, "expression", Str(<<"neutral">>))
                       /\ kept(i, "notes", Str(<<>>))
                       /\ level.t = "float" /\ level.v >= 0 /\ level.v <= Sec(1)
                       /\ (~Has(entries[i], "intensity")
                           \/ ~IsNumber(entries[i].v["intensity"]))
                              => level = PyFloat(50)
            /\ Has(animation_script, "metadata") =>
                   MetadataOf(returned) = MetadataOf(animation_script)

\* a timeline that lost a non-object entry and whose keyframe gained its notes
C9_Witness ==
    /\ SanitizedScript
    /\ Len(TimelineOf(returned)) >= 1
    /\ Len(TimelineOf(returned)) < Len(TimelineOf(animation_script))
    /\ ~Has(DictEntries(TimelineOf(animation_script))[1], "notes")
    /\ TimelineOf(returned)[1].v["notes"] = Str(<<>>)

\* C10: clamp_intensity maps every input into [0,1]: a number v (an int or a
\* float of Python, so a bool too) maps to max(0, min(1, v)) as a float, nan to
\* 1, and any other input to the default 0.5; -1, 0, 0.5, 1, 2, "x" map to
\* 0, 0, 0.5, 1, 1, 0.5.
C10_ClampIntensity ==
    pc = "clamp_done" =>
        /\ intensity.t = "float" /\ intensity.v >= 0 /\ intensity.v <= Sec(1)
        /\ ~IsNumber(value) => intensity = PyFloat(50)
        /\ IsNaN(value) => intensity = PyFloat(Sec(1))
        /\ (IsNumber(value) /\ ~IsNaN(value)) =>
               intensity.v = (IF NumVal(value) < 0 THEN 0
                              ELSE IF NumVal(value) > Sec(1) THEN Sec(1)
                              ELSE NumVal(value))
        /\ value = PyInt(0 - Sec(1)) => intensity = PyFloat(0)
        /\ value = PyInt(0) => intensity = PyFloat(0)
        /\ value = PyFloat(50) => intensity = PyFloat(50)
        /\ value = PyInt(Sec(1)) => intensity = PyFloat(Sec(1))
        /\ value = PyInt(Sec(2)) => intensity = PyFloat(Sec(1))
        /\ value = Str(<<"x">>) => intensity = PyFloat(50)

\* 2 was clamped to 1
C10_Witness ==
    /\ pc = "clamp_done"
    /\ value = PyInt(Sec(2))
    /\ intensity = PyFloat(Sec(1))

\* every issue the validator recorded is one of the two keyframe-count issues
OnlyKeyframeCountIssues ==
    /\ ~validation.raised
    /\ validation.issues # <<>>
    /\ \A i \in 1..Len(validation.issues) :
           validation.issues[i].msg \in {"Timeline has too many keyframes",
                                         "Timeline should have at least 3 keyframes"}

\* C11 as claimed: a keyframe-count issue is not by itself fatal: a generated
\* script whose only validation issue is that its timeline has fewer than 3 or
\* more than 10 keyframes is still returned, sanitized, instead of the fallback.
C11_CountIssueNotFatal ==
    pc = "done" /\ animation_script # None /\ OnlyKeyframeCountIssues =>
        returned = sanitize_animation_script(animation_script)

\* C11 as amended: a keyframe-count issue is fatal: a generated script whose
\* only validation issue is that its timeline has fewer than 3 or more than 10
\* keyframes gets ok = false and the call returns the fallback, not the
\* generated script; and no call that recorded an issue returns the generated
\* script.
C11_CountIssueFatal ==
    /\ pc = "done" /\ animation_script # None /\ OnlyKeyframeCountIssues =>
           /\ ~validation.is_valid
           /\ returned = Fallback
           /\ returned # sanitize_animation_script(animation_script)
    /\ pc = "done" /\ validation.issues # <<>> => returned = Fallback

\* an eleven-keyframe script with no other issue was answered with the fallback
C11_Witness ==
    /\ pc = "done"
    /\ animation_script # None
    /\ OnlyKeyframeCountIssues
    /\ HasIssue(validation, "Timeline has too many keyframes")
    /\ returned = Fallback

\* C19: for every image with width or height greater than 1024, resize_image
\* yields dimensions whose larger side is exactly 1024 and whose smaller side is
\* the original smaller side scaled by the same factor
\* min(1024 / width, 1024 / height), within one pixel of rounding.
C19_ResizeToMaxDimension ==
    pc = "resize_done" /\ (image.width > max_dimension \/ image.height > max_dimension) =>
        LET larger == IF image.width > image.height THEN image.width ELSE image.height
            smaller == IF image.width > image.height THEN image.height ELSE image.width
            new_larger == IF image.width > image.height THEN new_size.width ELSE new_size.height
            new_smaller == IF image.width > image.height THEN new_size.height ELSE new_size.width
        IN  /\ new_larger = max_dimension
            /\ new_smaller * larger - max_dimension * smaller < larger
            /\ max_dimension * smaller - new_smaller * larger < larger

\* the data generate_roast read from the response: response.parsed, or what the
\* manual parse found
SourceData ==
    IF strategy.name = "structured" THEN response.parsed
    ELSE ManualParse(response.candidates[1].content.parts, 1,
                     response.candidates[1].finish_reason).data

\* the confidence_rating the model gave (5 stands in for none)
ModelConfidence ==
    IF SourceData.t = "object" THEN Get(Dict(SourceData.v), "confidence_rating", PyInt(Sec(5)))
    ELSE Get(SourceData, "confidence_rating", PyInt(Sec(5)))

\* C12: every RoastResult returned by generate_roast has confidence_rating
\* within [0,10]: a model value v is replaced by max(0, min(10, v)), so that
\* -5, 0, 10, 15 become 0, 0, 10, 10, whichever parsing path (structured,
\* direct, repaired, fenced) produced the data.
C12_ConfidenceClamped ==
    pc = "roast_done" =>
        /\ strategy.name \in {"structured", "direct", "repaired", "fenced"}
        /\ returned.t = "dict"
        /\ IsNumber(returned.v["confidence_rating"])
        /\ Le(PyInt(0), returned.v["confidence_rating"])
        /\ Le(returned.v["confidence_rating"], PyInt(Sec(10)))
        /\ returned.v["confidence_rating"]
               = PyMax(PyInt(0), PyMin(PyInt(Sec(10)), ModelConfidence))
        /\ ModelConfidence = PyInt(Sec(0 - 5)) => returned.v["confidence_rating"] = PyInt(0)
        /\ ModelConfidence = PyInt(0) => returned.v["confidence_rating"] = PyInt(0)
        /\ ModelConfidence = PyInt(Sec(10)) => returned.v["confidence_rating"] = PyInt(Sec(10))
        /\ ModelConfidence = PyInt(Sec(15)) => returned.v["confidence_rating"] = PyInt(Sec(10))

\* a rating of 15 read from inside a code fence was returned as 10
C12_Witness ==
    /\ pc = "roast_done"
    /\ strategy.name = "fenced"
    /\ ModelConfidence = PyInt(Sec(15))
    /\ returned.v["confidence_rating"] = PyInt(Sec(10))

\* C13: generate_roast invokes the vision model at most twice per call.  The
\* first invocation carries the response schema; a second one is made only
\* after the first raised, and without the schema; if it raises too, its error
\* leaves generate_roast and nothing is retried; when the first invocation
\* succeeds there is no second one.
C13_AtMostOneRetry ==
    /\ [](pc \in {"roast_start", "roast_retry", "roast_responded", "roast_candidates",
                  "roast_parsed", "roast_done", "roast_raised"} =>
              /\ Len(calls) <= 2
              /\ Len(calls) >= 1 => calls[1] = Call("generate_roast", TRUE)
              /\ Len(calls) = 2 => calls[2] = Call("generate_roast", FALSE)
              /\ pc = "roast_retry" => Len(calls) = 1 /\ response = NoResponse
              /\ pc = "roast_raised" /\ response = NoResponse =>
                     Len(calls) = 2 /\ exception = UpstreamError /\ returned = Missing)
    /\ [][/\ Len(calls') >= Len(calls)
          /\ Len(calls') = 2 /\ Len(calls) = 1 => pc = "roast_retry"
          /\ pc' = "roast_retry" => pc = "roast_start" /\ Len(calls') = 1
          /\ Len(calls) = 1 /\ response # NoResponse => calls' = calls
          /\ pc = "roast_raised" => calls' = calls /\ pc' = "roast_raised"]_vars

\* both invocations were made and both raised
C13_Witness ==
    /\ pc = "roast_raised"
    /\ calls = <<Call("generate_roast", TRUE), Call("generate_roast", FALSE)>>
    /\ response = NoResponse
    /\ exception = UpstreamError
    /\ returned = Missing

\* message contains the word
Contains(message, word) == \E i \in 1..Len(message) : message[i] = word

\* C14: when the vision response, of the first call or of the retry, has zero
\* candidates, generate_roast fails with a "blocked by safety filters" error
\* that is distinct from the parse-failure error and returns no RoastResult, and
\* the HTTP handler answers 400 with success=false and a message containing
\* "blocked" or "safety".
C14_BlockedBySafetyFilters ==
    /\ BlockedError # ParseError
    /\ pc \in {"roast_candidates", "roast_parsed", "roast_done"} => response.candidates # <<>>
    /\ pc = "roast_raised" /\ response # NoResponse /\ response.candidates = <<>> =>
           /\ exception = BlockedError
           /\ Contains(exception.message, "blocked")
           /\ Contains(exception.message, "safety")
           /\ returned = Missing
           /\ roast_data = Missing
    /\ pc = "roast_raised" /\ exception = BlockedError => response.candidates = <<>>
    /\ pc = "http_done" /\ response # NoResponse /\ response.candidates = <<>> =>
           /\ reply.status = 400
           /\ reply.body.v["success"] = Bool(FALSE)
           /\ reply.body.v["error"].t = "str"
           /\ \/ Contains(reply.body.v["error"].v, "blocked")
              \/ Contains(reply.body.v["error"].v, "safety")
           /\ reply.body.v["roast"] = Missing

\* the retry's response had no candidates and generate_roast raised
C14_Witness ==
    /\ pc = "roast_raised"
    /\ Len(calls) = 2
    /\ response # NoResponse
    /\ response.candidates = <<>>
    /\ exception = BlockedError

\* the handler answered a response without candidates
C14_HandlerWitness ==
    /\ pc = "http_done"
    /\ response # NoResponse
    /\ response.candidates = <<>>
    /\ reply.status = 400

\* the parts of the first candidate, its finish reason, and what each of the
\* three strategies reads from part i
CandidateParts ==
    IF response.candidates[1].content.present THEN response.candidates[1].content.parts
    ELSE <<>>
DirectRead(i) == json_loads(Strip(CandidateParts[i].text.v))
RepairedRead(i) ==
    IF response.candidates[1].finish_reason = "MAX_TOKENS"
    THEN json_loads(Repaired(Strip(CandidateParts[i].text.v)))
    ELSE JsonFail
FencedRead(i) == ExtractFenced(Strip(CandidateParts[i].text.v))

\* part i has no text, or no strategy reads it
NothingRead(i) ==
    \/ ~HasText(CandidateParts[i])
    \/ ~DirectRead(i).ok /\ ~RepairedRead(i).ok /\ ~FencedRead(i).ok

\* C15: when the structured result is absent, generate_roast tries, per text
\* part in order, the direct JSON parse, then the truncation repair (only if the
\* finish reason is MAX_TOKENS), then the code-fence stripping, and stops at the
\* first strategy that succeeds; if no strategy succeeds on any part it fails
\* with the parse-failure error and returns no RoastResult, partial, empty or
\* other.
C15_ParseStrategiesInOrder ==
    /\ pc \in {"roast_parsed", "roast_done", "roast_raised"}
    /\ response # NoResponse
    /\ response.candidates # <<>>
    /\ response.parsed = None
    =>
    /\ strategy.name \in {"direct", "repaired", "fenced", "none"}
    /\ strategy.name # "none" =>
           /\ strategy.part \in 1..Len(CandidateParts)
           /\ HasText(CandidateParts[strategy.part])
           /\ \A i \in 1..(strategy.part - 1) : NothingRead(i)
    /\ strategy.name = "direct" =>
           /\ DirectRead(strategy.part).ok
           /\ pc = "roast_parsed" => roast_data = DirectRead(strategy.part).v
    /\ strategy.name = "repaired" =>
           /\ ~DirectRead(strategy.part).ok
           /\ response.candidates[1].finish_reason = "MAX_TOKENS"
           /\ RepairedRead(strategy.part).ok
           /\ pc = "roast_parsed" => roast_data = RepairedRead(strategy.part).v
    /\ strategy.name = "fenced" =>
           /\ ~DirectRead(strategy.part).ok
           /\ ~RepairedRead(strategy.part).ok
           /\ FencedRead(strategy.part).ok
           /\ pc = "roast_parsed" => roast_data = FencedRead(strategy.part).v
    /\ strategy.name = "none" <=> \A i \in 1..Len(CandidateParts) : NothingRead(i)
    /\ strategy.name = "none" =>
           /\ pc = "roast_raised"
           /\ exception = ParseError
           /\ returned = Missing

\* the first part was no JSON by any strategy; the second, under MAX_TOKENS,
\* was read from inside its code fence after the direct parse and the repair
\* had failed, and a roast was returned
C15_Witness ==
    /\ pc = "roast_done"
    /\ response.parsed = None
    /\ response.candidates[1].finish_reason = "MAX_TOKENS"
    /\ strategy = [name |-> "fenced", part |-> 2]
    /\ HasText(CandidateParts[1])
    /\ returned # Missing

\* two text parts, no strategy read either, and the parse failure was raised
C15_FailureWitness ==
    /\ pc = "roast_raised"
    /\ response # NoResponse
    /\ response.candidates # <<>>
    /\ Len(CandidateParts) = 2
    /\ HasText(CandidateParts[1])
    /\ HasText(CandidateParts[2])
    /\ strategy.name = "none"
    /\ exception = ParseError

\* the request carries no image: its JSON body is absent or a dict without an
\* image field, and it has no multipart file named image
NoImageInRequest ==
    /\ \/ request.json = None
       \/ request.json.t = "dict" /\ ~Has(request.json, "image")
    /\ ~Has(request.files, "image")

\* C20: with the API key configured, a POST request that has neither an image
\* field in its JSON body nor a multipart image file is answered with HTTP 400
\* and a body whose success field is false and whose error field is a message,
\* and no model call is made.
C20_NoImageBadRequest ==
    /\ pc = "http_done"
    /\ request.method = "POST"
    /\ environment.GEMINI_API_KEY
    /\ NoImageInRequest
    =>
    /\ reply.status = 400
    /\ reply.body.v["success"] = Bool(FALSE)
    /\ reply.body.v["error"].t = "str"
    /\ reply.body.v["error"].v # <<>>
    /\ calls = <<>>

\* what the code does hold to: 400, an error message, no model call
C20_NoImageAnswer ==
    /\ pc = "http_done"
    /\ request.method = "POST"
    /\ environment.GEMINI_API_KEY
    /\ NoImageInRequest
    =>
    /\ reply.status = 400
    /\ reply.body.v["success"] = Missing
    /\ reply.body.v["error"] = Str(NoImageMessage)
    /\ calls = <<>>

\* field key of the roast narrated, as the words of a str ("" when absent)
NarratedField(key) == IF Has(roast_data, key) /\ roast_data.v[key].t = "str"
                      THEN roast_data.v[key].v ELSE <<>>

\* C16: build_narration_text returns overall_vibe + ". ", followed by the roast
\* lines joined by single spaces, followed by " And here's the best part: " +
\* one_liner only when one_liner is non-empty; for {overall_vibe: V,
\* roast_lines: [a, b], one_liner: L} the result is exactly
\* "V. a b And here's the best part: L".
C16_NarrationText ==
    pc = "narration_done" =>
        LET lines == IF Has(roast_data, "roast_lines") /\ roast_data.v["roast_lines"].t = "list"
                     THEN roast_data.v["roast_lines"].v ELSE <<>>
            head == NarratedField("overall_vibe") \o <<".", " ">>
            lengths == [i \in 1..Len(lines) |-> Len(lines[i].v)]
            \* where line i starts in the text: after the head, the lines before it
            \* and one blank for each of them
            start(i) == Len(head) + i - 1
                        + Cardinality({<<j, k>> \in (1..Len(lines)) \X (1..3) :
                                           j < i /\ k <= lengths[j]})
            tail_at == IF lines = <<>> THEN Len(head) + 1
                       ELSE start(Len(lines)) + lengths[Len(lines)] + 1
            best == <<" ", "And", " ", "here's", " ", "the", " ", "best", " ", "part:", " ">>
                        \o NarratedField("one_liner")
        IN  /\ narration_text.t = "str"
            /\ SubSeq(narration_text.v, 1, Len(head)) = head
            /\ \A i \in 1..Len(lines) :
                   /\ SubSeq(narration_text.v, start(i) + 1, start(i) + lengths[i]) = lines[i].v
                   /\ i < Len(lines) => narration_text.v[start(i) + lengths[i] + 1] = " "
            /\ IF NarratedField("one_liner") # <<>>
               THEN SubSeq(narration_text.v, tail_at, Len(narration_text.v)) = best
               ELSE Len(narration_text.v) = tail_at - 1
            /\ roast_data = MakeDict(RoastKeys,
                                [overall_vibe |-> Str(<<"V">>),
                                 roast_lines |-> List(<<Str(<<"a">>), Str(<<"b">>)>>),
                                 one_liner |-> Str(<<"L">>)])
                   => narration_text = Str(<<"V", ".", " ", "a", " ", "b", " ", "And", " ",
                                             "here's", " ", "the", " ", "best", " ", "part:",
                                             " ", "L">>)

\* the example: V, [a, b], L was narrated
C16_Witness ==
    /\ pc = "narration_done"
    /\ roast_data.v["overall_vibe"] = Str(<<"V">>)
    /\ roast_data.v["roast_lines"] = List(<<Str(<<"a">>), Str(<<"b">>)>>)
    /\ roast_data.v["one_liner"] = Str(<<"L">>)
    /\ Len(narration_text.v) = 18

\* an empty one_liner: the text ends with the lines
C16_EmptyOneLinerWitness ==
    /\ pc = "narration_done"
    /\ roast_data.v["one_liner"] = Str(<<>>)
    /\ roast_data.v["roast_lines"] = List(<<Str(<<"a">>), Str(<<"b">>)>>)
    /\ narration_text.v[Len(narration_text.v)] = "b"

\* the places <<candidate, part>> of the parts that carry inline data
InlinePlaces ==
    {place \in (1..Len(response.candidates)) \X (1..MaxAudioParts) :
         /\ response.candidates[place[1]].content.present
         /\ place[2] <= Len(response.candidates[place[1]].content.parts)
         /\ response.candidates[place[1]].content.parts[place[2]].inline_data.t = "blob"}

\* the inline data at the first of these places, scanning candidates, and the
\* parts of each, in order
FirstInlineData ==
    LET first == CHOOSE place \in InlinePlaces :
                     \A other \in InlinePlaces :
                         \/ place[1] < other[1]
                         \/ place[1] = other[1] /\ place[2] <= other[2]
    IN  response.candidates[first[1]].content.parts[first[2]].inline_data.v

\* C17: generate_tts_audio never raises to its caller: it returns the base64
\* encoding of the first inline-data part found scanning candidates and their
\* parts in order, and returns None when the call raises, when there are no
\* candidates, or when no part carries inline data; a failure while writing
\* the test files does not change the returned audio.
C17_TtsAudio ==
    /\ pc \in {"tts_start", "tts_responded", "tts_save", "tts_return", "tts_except", "tts_done"}
    /\ b64encode(<<77, 97, 110>>) = <<"T", "W", "F", "u">>
    /\ b64encode(<<77, 97>>) = <<"T", "W", "E", "=">>
    /\ b64encode(<<77>>) = <<"T", "Q", "=", "=">>
    /\ b64encode(<<0, 255, 16, 128>>) = <<"A", "P", "8", "Q", "g", "A", "=", "=">>
    /\ pc = "tts_done" =>
           /\ returned = None \/ returned.t = "str"
           /\ response = NoResponse => returned = None
           /\ response # NoResponse /\ InlinePlaces = {} => returned = None
           /\ response # NoResponse /\ InlinePlaces # {} /\ FirstInlineData # None =>
                  returned = Str(b64encode(FirstInlineData.v))
           /\ response # NoResponse /\ InlinePlaces # {} /\ FirstInlineData = None =>
                  returned = None

\* writing the test files failed and the audio of the second candidate's
\* second part, the first part with inline data, was returned all the same
C17_Witness ==
    /\ pc = "tts_done"
    /\ environment.ENABLE_AUDIO_TEST
    /\ environment.disk = "fails"
    /\ artifacts # TestArtifacts
    /\ response # NoResponse
    /\ InlinePlaces # {}
    /\ \A place \in InlinePlaces : place[1] = 2 /\ place[2] = 2
    /\ returned = Str(<<"T", "Q", "=", "=">>)

\* the number that four octets, least significant first, stand for
FromLE32(octets) ==
    octets[1] + 256 * octets[2] + 65536 * octets[3] + 16777216 * octets[4]

\* C18: for N bytes of PCM the WAV framer emits a header of exactly 44 bytes
\* whose RIFF size field is 36 + N and whose data chunk size field is N,
\* followed by the PCM bytes unchanged: dropping the first 44 bytes of the
\* framed output recovers the N bytes exactly.
C18_WavFraming ==
    pc = "decode_done" /\ returned = Bool(TRUE) =>
        /\ Len(create_wav_header(Len(pcm_data))) = 44
        /\ Len(wav_data) = 44 + Len(pcm_data)
        /\ SubSeq(wav_data, 1, 4) = <<82, 73, 70, 70>>
        /\ FromLE32(SubSeq(wav_data, 5, 8)) = 36 + Len(pcm_data)
        /\ SubSeq(wav_data, 37, 40) = <<100, 97, 116, 97>>
        /\ FromLE32(SubSeq(wav_data, 41, 44)) = Len(pcm_data)
        /\ SubSeq(wav_data, 45, Len(wav_data)) = pcm_data
        /\ Str(b64encode(pcm_data)) = audio_base64
        /\ \A i \in 1..Len(wav_data) : wav_data[i] \in 0..255

\* 259 bytes were framed: both size fields need their second octet
C18_Witness ==
    /\ pc = "decode_done"
    /\ returned = Bool(TRUE)
    /\ Len(pcm_data) = 259
    /\ SubSeq(wav_data, 5, 8) = <<39, 1, 0, 0>>
    /\ SubSeq(wav_data, 41, 44) = <<3, 1, 0, 0>>

\* the words handed to base64.b64decode: of the JSON body's image field (the
\* part after the first comma of a data URL), else of the multipart file
ImagePayload ==
    IF Truthy(request.json) /\ request.json.t = "dict" /\ Has(request.json, "image")
       /\ request.json.v["image"].t = "str"
    THEN LET words == request.json.v["image"].v
         IN  IF \E i \in 1..Len(words) : words[i] = "," THEN AfterComma(words) ELSE words
    ELSE IF Has(request.files, "image") /\ ~(Truthy(request.json) /\ HasImage(request.json))
    THEN request.files.v["image"].v
    ELSE <<"none">>

\* the image of the request is malformed base64, or the base64 of bytes that
\* are no image
UnreadableImage ==
    /\ request.method = "POST"
    /\ environment.GEMINI_API_KEY
    /\ ImagePayload \in {<<"BAD">>, <<"TXT">>}

\* C21: a request whose image field holds malformed base64, or whose decoded
\* bytes are not a readable image, is answered as a client error: HTTP 400 with
\* success false, not a server error.
C21_UnreadableImageIsClientError ==
    pc = "http_done" /\ UnreadableImage
    =>
    /\ reply.status = 400
    /\ reply.body.v["success"] = Bool(FALSE)

\* what the code answers: the exception handler's 500 with the error's message
C21_UnreadableImageAnswer ==
    pc = "http_done" /\ UnreadableImage
    =>
    /\ reply = Reply(500, MakeDict(BodyKeys, [error |-> Str(DecodeError.message),
                                              success |-> Bool(FALSE)]))
    /\ calls = <<>>

\* C28: for every input image with width >= 1 and height >= 1, the dimensions
\* resize_image computes are both at least 1 pixel, also when one side exceeds
\* 1024 times the other.
C28_ResizedAtLeastOnePixel ==
    pc = "resize_done" /\ image.width >= 1 /\ image.height >= 1
    =>
    new_size.width >= 1 /\ new_size.height >= 1

\* what the code holds to: a side comes out as 0 only when the exact scaled
\* value is below one pixel
C28_ZeroOnlyBelowOnePixel ==
    pc = "resize_done" =>
        LET larger == IF image.width > image.height THEN image.width ELSE image.height
        IN  /\ new_size.width = 0 => max_dimension * image.width < larger
            /\ new_size.height = 0 => max_dimension * image.height < larger

\* the structured result is absent and the text of the only part is a JSON
\* object with unfenced words around it
UnfencedExtraText ==
    /\ response # NoResponse
    /\ response.candidates # <<>>
    /\ response.parsed = None
    /\ Len(CandidateParts) = 1
    /\ HasText(CandidateParts[1])
    /\ CandidateParts[1].text.v \in UnfencedTexts

\* C25: when structured parsing yields no result and the raw response text is a
\* valid JSON object preceded or followed by unfenced extra text, generate_roast
\* recovers the roast by parsing the span from the first "{" to the last "}"
\* and returns it rather than failing.
C25_UnfencedJsonRecovered ==
    pc \in {"roast_done", "roast_raised"} /\ UnfencedExtraText
    =>
    /\ pc = "roast_done"
    /\ returned # Missing

\* what the code does with such a text: no strategy reads it, and the parse
\* failure is raised
C25_UnfencedJsonFails ==
    pc \in {"roast_parsed", "roast_done", "roast_raised"} /\ UnfencedExtraText
    =>
    /\ pc = "roast_raised"
    /\ strategy.name = "none"
    /\ exception = ParseError
    /\ returned = Missing

\* the validator was called on a script whose timeline is a list with entries
TimelineValidated ==
    /\ validation # NotValidated
    /\ animation_script.t = "dict"
    /\ Get(animation_script, "timeline", None).t = "list"
    /\ TimelineOf(animation_script) # <<>>

\* the issue msg is recorded for the keyframe at place i of the timeline
\* (index i - 1 in the code's count from 0)
HasFrameIssue(msg, i) ==
    \E k \in 1..Len(validation.issues) :
        validation.issues[k].msg = msg /\ validation.issues[k].index = i - 1

StartOf(frame) == Get(frame, "startTime", None)
EndOf(frame) == Get(frame, "endTime", None)
LevelOf(frame) == Get(frame, "intensity", None)

\* the five conditions of the claim, for a keyframe that is a dict
LacksField(frame) == \E f \in {"startTime", "endTime", "animation", "expression", "intensity"} :
                         ~Has(frame, f)
NegativeStart(frame) ==
    IsNumber(StartOf(frame)) /\ Lt(StartOf(frame), PyInt(0))
EndNotAfterStart(frame) ==
    IsNumber(StartOf(frame)) /\ IsNumber(EndOf(frame)) /\ Le(EndOf(frame), StartOf(frame))
EndExceeds(frame) ==
    IsNumber(EndOf(frame)) /\ ~IsNaN(EndOf(frame))
    /\ NumVal(EndOf(frame)) > NumVal(duration_seconds) + Sec(1)
LevelOutside(frame) ==
    IsNumber(LevelOf(frame))
    /\ ~(Le(PyInt(0), LevelOf(frame)) /\ Le(LevelOf(frame), PyInt(Sec(1))))

\* C23: validate_animation_script returns ok = false for any timeline
\* containing a keyframe that lacks one of the five required fields (startTime,
\* endTime, animation, expression, intensity), or has startTime < 0, or
\* endTime <= startTime, or endTime > expectedDuration + 1, or a numeric
\* intensity outside [0,1]; a keyframe whose endTime equals
\* expectedDuration + 1 exactly is not flagged for exceeding the duration.
\* Stated of every call of the validator: it never returns ok = true for such
\* a timeline, and whenever it returns, the issue of the keyframe is on its
\* list.
C23_KeyframeChecks ==
    TimelineValidated =>
        \A i \in 1..Len(TimelineOf(animation_script)) :
            LET frame == TimelineOf(animation_script)[i]
            IN  frame.t = "dict" =>
                /\ LacksField(frame) \/ NegativeStart(frame) \/ EndNotAfterStart(frame)
                   \/ EndExceeds(frame) \/ LevelOutside(frame)
                   => ~validation.is_valid
                /\ ~validation.raised =>
                   /\ LacksField(frame) => HasFrameIssue("missing required field", i)
                   /\ NegativeStart(frame) /\ EndOf(frame) # None
                      => HasFrameIssue("startTime cannot be negative", i)
                   /\ EndNotAfterStart(frame)
                      => HasFrameIssue("endTime must be after startTime", i)
                   /\ EndExceeds(frame) /\ StartOf(frame) # None
                      => HasFrameIssue("endTime exceeds duration", i)
                   /\ LevelOutside(frame)
                      => HasFrameIssue("intensity must be between 0.0 and 1.0", i)
                   /\ IsNumber(EndOf(frame)) /\ ~IsNaN(EndOf(frame))
                      /\ NumVal(EndOf(frame)) = NumVal(duration_seconds) + Sec(1)
                      => ~HasFrameIssue("endTime exceeds duration", i)

\* a last keyframe ending 0.04 s past expectedDuration + 1 was flagged for it,
\* and for nothing else, and the script was rejected
C23_Witness ==
    /\ TimelineValidated
    /\ ~validation.raised
    /\ ~validation.is_valid
    /\ Len(validation.issues) = 1
    /\ LET n == Len(TimelineOf(animation_script))
       IN  /\ TimelineOf(animation_script)[n].t = "dict"
           /\ EndOf(TimelineOf(animation_script)[n])
                  = PyFloat(NumVal(duration_seconds) + Sec(1) + 4)
           /\ HasFrameIssue("endTime exceeds duration", n)

\* a script whose last keyframe ends at expectedDuration + 1 exactly was
\* accepted
C23_BoundaryWitness ==
    /\ TimelineValidated
    /\ validation.is_valid
    /\ LET n == Len(TimelineOf(animation_script))
       IN  /\ IsNumber(EndOf(TimelineOf(animation_script)[n]))
           /\ NumVal(EndOf(TimelineOf(animation_script)[n]))
                  = NumVal(duration_seconds) + Sec(1)

\* a number other than nan
Finite(x) == IsNumber(x) /\ ~IsNaN(x)

\* the first keyframe's startTime and the last keyframe's endTime, 0 when the
\* keyframe has none
FirstStart == Get(TimelineOf(animation_script)[1], "startTime", PyInt(0))
LastEnd ==
    Get(TimelineOf(animation_script)[Len(TimelineOf(animation_script))], "endTime", PyInt(0))

\* how far the keyframe at place i + 1 starts after the end of the one at i
GapAfter(i) ==
    NumVal(Get(TimelineOf(animation_script)[i + 1], "startTime", PyInt(0)))
    - NumVal(Get(TimelineOf(animation_script)[i], "endTime", PyInt(0)))

\* both times of the gap after place i are numbers other than nan
GapMeasured(i) ==
    /\ Finite(Get(TimelineOf(animation_script)[i + 1], "startTime", PyInt(0)))
    /\ Finite(Get(TimelineOf(animation_script)[i], "endTime", PyInt(0)))

\* the validator returned for a timeline of keyframes that are dicts
ContinuityChecked ==
    /\ TimelineValidated
    /\ ~validation.raised
    /\ \A i \in 1..Len(TimelineOf(animation_script)) :
           TimelineOf(animation_script)[i].t = "dict"

\* C24: validate_animation_script returns ok = false whenever the first
\* keyframe's startTime exceeds 0.5, or the last keyframe's endTime is below
\* expectedDuration - 1, or for some consecutive pair the next startTime minus
\* the current endTime exceeds 1 second; gaps of exactly 1 second and the
\* boundary values 0.5 and expectedDuration - 1 are accepted: each of the three
\* issues is recorded exactly when its strict inequality holds.
C24_TimelineContinuity ==
    ContinuityChecked =>
        /\ HasIssue(validation, "Timeline should start near 0 seconds")
               <=> Finite(FirstStart) /\ NumVal(FirstStart) > 50
        /\ HasIssue(validation, "Timeline ends before the expected duration")
               <=> Finite(LastEnd) /\ NumVal(LastEnd) < NumVal(duration_seconds) - Sec(1)
        /\ \A i \in 1..(Len(TimelineOf(animation_script)) - 1) :
               HasFrameIssue("Gap in timeline", i) <=> GapMeasured(i) /\ GapAfter(i) > Sec(1)
        /\ HasIssue(validation, "Timeline should start near 0 seconds")
           \/ HasIssue(validation, "Timeline ends before the expected duration")
           \/ HasIssue(validation, "Gap in timeline")
           => ~validation.is_valid

\* a gap of 1.04 s was the only issue and the script was rejected
C24_Witness ==
    /\ ContinuityChecked
    /\ ~validation.is_valid
    /\ Len(validation.issues) = 1
    /\ \E i \in 1..(Len(TimelineOf(animation_script)) - 1) :
           GapMeasured(i) /\ GapAfter(i) = Sec(1) + 4 /\ HasFrameIssue("Gap in timeline", i)

\* scripts with a gap of exactly 1 s, with a first startTime of 0.5, and with a
\* last endTime of expectedDuration - 1 were accepted
C24_GapBoundaryWitness ==
    /\ ContinuityChecked
    /\ validation.is_valid
    /\ \E i \in 1..(Len(TimelineOf(animation_script)) - 1) :
           GapMeasured(i) /\ GapAfter(i) = Sec(1)

C24_StartBoundaryWitness ==
    /\ ContinuityChecked
    /\ validation.is_valid
    /\ FirstStart = PyFloat(50)

C24_EndBoundaryWitness ==
    /\ ContinuityChecked
    /\ validation.is_valid
    /\ Finite(LastEnd)
    /\ NumVal(LastEnd) = NumVal(duration_seconds) - Sec(1)

\* C26: validate_animation_script is total on parsed JSON: for every script
\* value (keyframes whose startTime, endTime or intensity are strings, nulls or
\* other non-numbers, and metadata or timeline entries that are no objects,
\* included) it returns a pair (ok, issues) and never raises; ill-typed fields
\* are reported as issues.
C26_ValidatorTotal ==
    validation # NotValidated =>
        /\ ~validation.raised
        /\ ~validation.is_valid => validation.issues # <<>>

\* what the code holds to: an ill-typed intensity or metadata is reported as an
\* issue; the validator raises only on a timeline with an entry that is no
\* dict, a startTime or endTime that is present and no number, or an animation
\* or expression that is a non-empty list or dict
C26_RaisesOnTimesAndEntries ==
    validation # NotValidated /\ validation.raised =>
        /\ TimelineValidated
        /\ \E i \in 1..Len(TimelineOf(animation_script)) :
               LET frame == TimelineOf(animation_script)[i]
               IN  \/ frame.t # "dict"
                   \/ Has(frame, "startTime") /\ ~IsNumber(frame.v["startTime"])
                   \/ Has(frame, "endTime") /\ ~IsNumber(frame.v["endTime"])
                   \/ Has(frame, "animation") /\ frame.v["animation"].t \in {"list", "dict"}
                   \/ Has(frame, "expression") /\ frame.v["expression"].t \in {"list", "dict"}

\* the keyframe has the six fields, times that are numbers with
\* 0 <= startTime < endTime <= d + 1, and an intensity in [0,1]
WellFormedKeyframe(frame, d) ==
    /\ frame.t = "dict"
    /\ PresentKeys(frame) = {"startTime", "endTime", "animation", "expression",
                             "intensity", "notes"}
    /\ Finite(frame.v["startTime"])
    /\ Finite(frame.v["endTime"])
    /\ 0 <= NumVal(frame.v["startTime"])
    /\ NumVal(frame.v["startTime"]) < NumVal(frame.v["endTime"])
    /\ NumVal(frame.v["endTime"]) <= NumVal(d) + Sec(1)
    /\ Finite(frame.v["intensity"])
    /\ 0 <= NumVal(frame.v["intensity"])
    /\ NumVal(frame.v["intensity"]) <= Sec(1)

\* C27: for every duration d > 0, every script returned by
\* generate_animation_script has a timeline of between 3 and 10 keyframes, each
\* with all six fields, numeric times satisfying 0 <= startTime < endTime <= d + 1
\* and intensity in [0,1], and the returned script is a fixed point of
\* sanitize_animation_script, on the fallback path too.
C27_ReturnedScriptWellFormed ==
    pc = "done" /\ NumVal(duration_seconds) > 0 =>
        /\ IsAnimationScript(returned)
        /\ Len(TimelineOf(returned)) >= 3
        /\ Len(TimelineOf(returned)) <= max_keyframes
        /\ \A i \in 1..Len(TimelineOf(returned)) :
               WellFormedKeyframe(TimelineOf(returned)[i], duration_seconds)
        /\ sanitize_animation_script(returned) = returned

\* what call i returns and writes when it runs alone: the base64 of its audio,
\* and in test mode that base64 in audio_base64.txt and the WAV of its audio in
\* roast_audio.wav
AloneReturned(i) == ExtractAudio(callers[i].response).audio
AloneWritten(i) ==
    IF environment.ENABLE_AUDIO_TEST
    THEN [file \in TestArtifacts |->
              IF file = "audio_base64.txt" THEN AloneReturned(i)
              ELSE Bytes(create_wav_header(Len(b64decode(AloneReturned(i).v)))
                         \o b64decode(AloneReturned(i).v))]
    ELSE NoFiles

\* C22: concurrent requests are independent: under any interleaving of two
\* requests' steps, each request's response and the artifacts it writes are
\* the same as if it ran alone, also when test-mode audio persistence is
\* enabled and both requests write audio_base64.txt and roast_audio.wav.
C22_RequestsIndependent ==
    \A i \in Callers :
        callers[i].pc = "tts_done" =>
            /\ callers[i].returned = AloneReturned(i)
            /\ callers[i].written = AloneWritten(i)

\* what the code holds to: the return value of a call is the base64 of its own
\* audio, and without the test mode no file is written
C22_ResponsesIndependent ==
    \A i \in Callers :
        /\ callers[i].pc = "tts_done" => callers[i].returned = AloneReturned(i)
        /\ ~environment.ENABLE_AUDIO_TEST =>
               temp_dir = NoFiles /\ callers[i].written = NoFiles

\* calls that do not overlap write what they write alone
C22_SerialCallsIndependent ==
    \A i \in Callers :
        /\ callers[i].pc = "tts_done"
        /\ \A j \in Callers \ {i} : callers[j].pc \in {"tts_start", "tts_responded"}
        => callers[i].written = AloneWritten(i)

====
